---- MODULE Spec2Model ----
(***************************************************************************)
(* Model of the incentive engine of the excel_report dashboard:           *)
(* src/app/page.tsx (parseWorkbook and its helpers) and                   *)
(* src/lib/departments.ts (the department catalog).                       *)
(*                                                                         *)
(* Text is modelled as a sequence of characters, each character a         *)
(* one-element string, so that trimming, lower-casing, substring          *)
(* containment and concatenation are computed as the code computes them.  *)
(* The two curly quotes are written "lsquo" and "rsquo".                  *)
(***************************************************************************)
EXTENDS Integers, Sequences, FiniteSets, TLC

(***************************************************************************)
(* Bounds of the model.                                                    *)
(***************************************************************************)
\* number of data rows read from one worksheet
MaxRows == 3
\* largest distinct-department count fed to the tier function on its own
MaxDepartmentCount == 60
\* number of calls of parseDateCell observed together
MaxDateCalls == 2
\* number of rows of a worksheet whose header row is located
MaxSheetRows == 5
\* number of cells of a header row searched by findHeaderIndex on its own
MaxHeaderCells == 3
\* number of entries of a breakdown sorted on its own
MaxBreakdown == 3
\* number of salesperson metrics sorted on their own
MaxMetrics == 3
\* the breakdown entries filtered are dated up to this many days after a
\* week start (and from one day before it)
MaxWeekOffset == 7

(***************************************************************************)
(* Character and string helpers (JavaScript String methods).               *)
(***************************************************************************)
UpperToLower ==
  [c \in {"A","B","C","D","E","F","G","H","I","J","K","L","M",
          "N","O","P","Q","R","S","T","U","V","W","X","Y","Z"} |->
     CASE c = "A" -> "a" [] c = "B" -> "b" [] c = "C" -> "c" [] c = "D" -> "d"
       [] c = "E" -> "e" [] c = "F" -> "f" [] c = "G" -> "g" [] c = "H" -> "h"
       [] c = "I" -> "i" [] c = "J" -> "j" [] c = "K" -> "k" [] c = "L" -> "l"
       [] c = "M" -> "m" [] c = "N" -> "n" [] c = "O" -> "o" [] c = "P" -> "p"
       [] c = "Q" -> "q" [] c = "R" -> "r" [] c = "S" -> "s" [] c = "T" -> "t"
       [] c = "U" -> "u" [] c = "V" -> "v" [] c = "W" -> "w" [] c = "X" -> "x"
       [] c = "Y" -> "y" [] c = "Z" -> "z"]

\* String.prototype.toLowerCase
toLowerCase(s) ==
  [i \in 1..Len(s) |-> IF s[i] \in DOMAIN UpperToLower THEN UpperToLower[s[i]] ELSE s[i]]

\* the characters matched by \s and removed by trim()
IsWhitespace(c) == c \in {" ", "\t", "\n", "\r"}

RECURSIVE trimStart(_)
trimStart(s) ==
  IF s # <<>> /\ IsWhitespace(Head(s)) THEN trimStart(Tail(s)) ELSE s

RECURSIVE trimEnd(_)
trimEnd(s) ==
  IF s # <<>> /\ IsWhitespace(s[Len(s)]) THEN trimEnd(SubSeq(s, 1, Len(s) - 1)) ELSE s

\* String.prototype.trim
trim(s) == trimEnd(trimStart(s))

\* String.prototype.includes
includes(haystack, needle) ==
  \E i \in 0..(Len(haystack) - Len(needle)) :
     SubSeq(haystack, i + 1, i + Len(needle)) = needle

\* value.replace(/\s+/g, ' ')
RECURSIVE collapseWhitespace(_)
collapseWhitespace(s) ==
  IF s = <<>> THEN <<>>
  ELSE IF IsWhitespace(Head(s))
       THEN <<" ">> \o collapseWhitespace(trimStart(s))
       ELSE <<Head(s)>> \o collapseWhitespace(Tail(s))

\* Array.prototype.join over strings
RECURSIVE join(_, _)
join(parts, sep) ==
  IF parts = <<>> THEN <<>>
  ELSE IF Len(parts) = 1 THEN parts[1]
  ELSE parts[1] \o sep \o join(Tail(parts), sep)

Range(f) == {f[i] : i \in DOMAIN f}

Digit(d) ==
  CASE d = 0 -> "0" [] d = 1 -> "1" [] d = 2 -> "2" [] d = 3 -> "3" [] d = 4 -> "4"
    [] d = 5 -> "5" [] d = 6 -> "6" [] d = 7 -> "7" [] d = 8 -> "8" [] d = 9 -> "9"

\* Number.prototype.toString for an integer
RECURSIVE natToString(_)
natToString(n) ==
  IF n < 10 THEN <<Digit(n)>> ELSE natToString(n \div 10) \o <<Digit(n % 10)>>

numberToString(n) == IF n < 0 THEN <<"-">> \o natToString(0 - n) ELSE natToString(n)

(***************************************************************************)
(* Cell values.  A worksheet cell is null, a string, a number or a Date.   *)
(***************************************************************************)
Null == [t |-> "null"]
Str(s) == [t |-> "str", s |-> s]
Num(n) == [t |-> "num", n |-> n]
NotFinite == [t |-> "nan"]
\* a Date: its UTC day number and the second within that day, or an Invalid
\* Date when the day number is InvalidDate
DateObj(time, second) == [t |-> "date", time |-> time, second |-> second]

InvalidDate == -1000000

\* what a text-valued call yields when it throws a RangeError; no text has a
\* character of this name
RangeError == <<"RangeError">>

\* normalizeQuotes
normalizeQuotes(value) ==
  [i \in 1..Len(value) |-> IF value[i] \in {"rsquo", "lsquo"} THEN "'" ELSE value[i]]

(***************************************************************************)
(* Calendar arithmetic (JavaScript Date in UTC, day granularity).          *)
(* A day is numbered by its distance from 1970-01-01.                      *)
(***************************************************************************)
\* Date.UTC(year, month - 1, day) / 86400000, for any day number in the month
\* (out-of-range days roll over as Date.UTC rolls them)
daysFromCivil(y, m, d) ==
  LET yy == IF m <= 2 THEN y - 1 ELSE y
      era == yy \div 400
      yoe == yy - era * 400
      mp == IF m > 2 THEN m - 3 ELSE m + 9
      doy == (153 * mp + 2) \div 5
      doe == yoe * 365 + yoe \div 4 - yoe \div 100 + doy
  IN  era * 146097 + doe - 719468 + (d - 1)

\* the UTC year, month and day of a day number, computed in four steps from
\* the 400-year era, the day and the year of the era, and the day of the year
\* and the month counted from March
civilOfDayOfYear(era, yoe, doy, mp) ==
  [y |-> yoe + era * 400 + (IF mp < 10 THEN 0 ELSE 1),
   m |-> IF mp < 10 THEN mp + 3 ELSE mp - 9,
   d |-> doy - (153 * mp + 2) \div 5 + 1]

civilOfYearOfEra(era, yoe, doy) == civilOfDayOfYear(era, yoe, doy, (5 * doy + 2) \div 153)

civilOfDayOfEra(era, doe, yoe) ==
  civilOfYearOfEra(era, yoe, doe - (365 * yoe + yoe \div 4 - yoe \div 100))

civilOfEra(z, era) ==
  civilOfDayOfEra(era, z - era * 146097,
                  ((z - era * 146097) - (z - era * 146097) \div 1460
                     + (z - era * 146097) \div 36524 - (z - era * 146097) \div 146096) \div 365)

civilFromDays(days) == civilOfEra(days + 719468, (days + 719468) \div 146097)

\* String.prototype.padStart(len, '0')
RECURSIVE padStart(_, _)
padStart(s, len) == IF Len(s) < len THEN padStart(<<"0">> \o s, len) ELSE s

pad2(n) == padStart(natToString(n), 2)

pad4(n) == padStart(natToString(n), 4)

\* toIsoDate: date.toISOString().slice(0, 10), for years 0..99999: a year
\* above 9999 is written with a sign and six digits, of which the slice keeps
\* the year and the month; toISOString throws a RangeError on an Invalid Date
isoOfCivil(c) ==
  LET widths == IF c.y > 9999 THEN <<6, 2>> ELSE <<4, 2, 2>>
  IN  (IF c.y > 9999 THEN <<"+">> ELSE <<>>)
        \o join([i \in DOMAIN widths |-> padStart(natToString(<<c.y, c.m, c.d>>[i]), widths[i])],
                <<"-">>)

toIsoDate(days) == IF days = InvalidDate THEN RangeError ELSE isoOfCivil(civilFromDays(days))

\* Date.prototype.toISOString, for a Date on a whole second
toISOString(value) ==
  IF value.time = InvalidDate THEN RangeError
  ELSE toIsoDate(value.time) \o <<"T">>
         \o join([i \in 1..3 |-> pad2(<<value.second \div 3600, (value.second \div 60) % 60,
                                         value.second % 60>>[i])], <<":">>)
         \o <<".", "0", "0", "0", "Z">>

\* stringifyCell
stringifyCell(value) ==
  CASE value.t = "null" -> <<>>
    [] value.t = "nan" -> <<>>
    [] value.t = "num" -> numberToString(value.n)
    [] value.t = "date" -> toISOString(value)
    [] value.t = "str" -> trim(value.s)

\* normalizeKey without the collapse of whitespace runs
normalizeKey_noCollapse(value) ==
  toLowerCase(trim(normalizeQuotes(stringifyCell(value))))

\* normalizeKey
normalizeKey(value) ==
  toLowerCase(trim(collapseWhitespace(normalizeQuotes(stringifyCell(value)))))

IsDigit(c) == c \in {"0", "1", "2", "3", "4", "5", "6", "7", "8", "9"}

DigitValue(c) ==
  CASE c = "0" -> 0 [] c = "1" -> 1 [] c = "2" -> 2 [] c = "3" -> 3 [] c = "4" -> 4
    [] c = "5" -> 5 [] c = "6" -> 6 [] c = "7" -> 7 [] c = "8" -> 8 [] c = "9" -> 9

RECURSIVE digitsToNat(_)
digitsToNat(s) ==
  IF s = <<>> THEN 0 ELSE digitsToNat(SubSeq(s, 1, Len(s) - 1)) * 10 + DigitValue(s[Len(s)])

DaysInMonth(y, m) == daysFromCivil(y, m + 1, 1) - daysFromCivil(y, m, 1)

\* text of the form YYYY-MM-DD naming a day that exists
IsIsoDateText(text) ==
  /\ Len(text) = 10
  /\ text[5] = "-" /\ text[8] = "-"
  /\ \A i \in {1, 2, 3, 4, 6, 7, 9, 10} : IsDigit(text[i])
  /\ LET y == digitsToNat(SubSeq(text, 1, 4))
         m == digitsToNat(SubSeq(text, 6, 7))
         d == digitsToNat(SubSeq(text, 9, 10))
     IN  m \in 1..12 /\ d \in 1..DaysInMonth(y, m)

\* new Date(text): a date-only ISO text is read as that UTC day; text without
\* any digit is an Invalid Date.  Other text is outside the modelled inputs.
newDateFromText(text) ==
  IF IsIsoDateText(text)
  THEN daysFromCivil(digitsToNat(SubSeq(text, 1, 4)), digitsToNat(SubSeq(text, 6, 7)),
                     digitsToNat(SubSeq(text, 9, 10)))
  ELSE InvalidDate

\* text of the form +YYYYYY-MM naming a month
IsExpandedYearMonthText(text) ==
  /\ Len(text) = 10
  /\ text[1] = "+" /\ text[8] = "-"
  /\ \A i \in {2, 3, 4, 5, 6, 7, 9, 10} : IsDigit(text[i])
  /\ digitsToNat(SubSeq(text, 9, 10)) \in 1..12

\* toTimestamp (line 522): new Date(`${iso}T00:00:00Z`).getTime() / 86400000;
\* a date-time text is read by the ECMAScript date-time format, in which the
\* date part may be a day or a month and the year may have a sign and six
\* digits; InvalidDate stands for NaN
toTimestamp(iso) ==
  IF IsIsoDateText(iso)
  THEN daysFromCivil(digitsToNat(SubSeq(iso, 1, 4)), digitsToNat(SubSeq(iso, 6, 7)),
                     digitsToNat(SubSeq(iso, 9, 10)))
  ELSE IF IsExpandedYearMonthText(iso)
  THEN daysFromCivil(digitsToNat(SubSeq(iso, 2, 7)), digitsToNat(SubSeq(iso, 9, 10)), 1)
  ELSE InvalidDate

\* Date.UTC(year, monthIndex, day) / 86400000: a year from 0 to 99 stands for
\* 1900 + year
DateUTC(year, monthIndex, day) ==
  daysFromCivil(IF year \in 0..99 THEN 1900 + year ELSE year, monthIndex + 1, day)

\* addDaysToIso (lines 125-130), for a text of the form YYYY-MM-DD
addDaysToIso(iso, days) ==
  LET year == digitsToNat(SubSeq(iso, 1, 4))
      month == digitsToNat(SubSeq(iso, 6, 7))
      day == digitsToNat(SubSeq(iso, 9, 10))
  IN  toIsoDate(DateUTC(year, month - 1, day) + days)

\* XLSX.SSF.parse_date_code for a whole-day serial: null outside 0..2958465,
\* serial 60 is the fictitious 1900-02-29, serial 0 is day 0 of January 1900
NoDateCode == [y |-> 0, m |-> 0, d |-> 0]

\* parse_date_code without the step over the fictitious 1900-02-29
parse_date_code_noLeapDay(v) ==
  IF v > 2958465 \/ v < 0 THEN NoDateCode
  ELSE IF v = 0 THEN [y |-> 1900, m |-> 1, d |-> 0]
  ELSE civilFromDays(daysFromCivil(1900, 1, 1) + v - 1)

parse_date_code(v) ==
  IF v > 2958465 \/ v < 0 THEN NoDateCode
  ELSE IF v = 60 THEN [y |-> 1900, m |-> 2, d |-> 29]
  ELSE IF v = 0 THEN [y |-> 1900, m |-> 1, d |-> 0]
  ELSE civilFromDays(daysFromCivil(1900, 1, 1) + (IF v > 60 THEN v - 1 ELSE v) - 1)

UNKNOWN_DATE_KEY == <<"_", "_", "u", "n", "k", "n", "o", "w", "n", "_", "_">>

\* a DateInfo without its display text; iso = <<>> stands for iso = null
UnknownDateInfo == [key |-> UNKNOWN_DATE_KEY, iso |-> <<>>]

\* the outcome of a call that does not return because a RangeError is thrown
RangeErrorThrown == [exception |-> "RangeError"]

IsoDateInfo(iso) == [key |-> iso, iso |-> iso]

\* parseDateCell
parseDateCell(value) ==
  IF value.t = "null" \/ value = Str(<<>>) THEN UnknownDateInfo
  ELSE IF value.t = "date"
       THEN LET iso == toIsoDate(value.time)
            IN  IF iso = RangeError THEN RangeErrorThrown ELSE IsoDateInfo(iso)
  ELSE IF value.t = "num" /\ parse_date_code(value.n) # NoDateCode
       THEN LET parsed == parse_date_code(value.n)
            IN  IsoDateInfo(toIsoDate(daysFromCivil(parsed.y, parsed.m, parsed.d)))
  ELSE LET text == stringifyCell(value)
       IN  IF text = <<>> THEN UnknownDateInfo
           ELSE IF newDateFromText(text) # InvalidDate
                THEN IsoDateInfo(toIsoDate(newDateFromText(text)))
           ELSE [key |-> IF normalizeKey(Str(text)) # <<>> THEN normalizeKey(Str(text))
                         ELSE UNKNOWN_DATE_KEY,
                 iso |-> <<>>]

(***************************************************************************)
(* Department catalog (src/lib/departments.ts).                            *)
(***************************************************************************)
MASTER_DEPARTMENTS ==
  << <<"s", "h", "u", "t", "t", "i", "n", "g", " ", "s", "h", "i", "r", "t", "i", "n", "g">>,
     <<"m", "e", "n", "'", "s", " ", "e", "t", "h", "n", "i", "c">>,
     <<"k", "u", "r", "t", "a">>,
     <<"m", "e", "n", "'", "s", " ", "r", "e", "a", "d", "y", "m", "a", "d", "e">>,
     <<"s", "a", "r", "e", "e", "s">>,
     <<"w", "o", "m", "e", "n", "'", "s", " ", "e", "t", "h", "n", "i", "c">> >>

\* the variations table of normalizeDepartment: << variant, master >>
variations ==
  << <<<<"m", "e", "n", "s", " ", "a", "c", "c", "e", "s", "s", "o", "r", "i", "e", "s">>,
        <<"m", "e", "n", "'", "s", " ", "e", "t", "h", "n", "i", "c">>>>,
     <<<<"m", "e", "n", "'", "s", " ", "a", "c", "c", "e", "s", "s", "o", "r", "i", "e", "s">>,
        <<"m", "e", "n", "'", "s", " ", "e", "t", "h", "n", "i", "c">>>>,
     <<<<"m", "e", "n", "s", " ", "e", "t", "h", "n", "i", "c">>,
        <<"m", "e", "n", "'", "s", " ", "e", "t", "h", "n", "i", "c">>>>,
     <<<<"m", "e", "n", "s", " ", "e", "t", "h", "n", "i", "c", "s">>,
        <<"m", "e", "n", "'", "s", " ", "e", "t", "h", "n", "i", "c">>>>,
     <<<<"m", "e", "n", " ", "e", "t", "h", "n", "i", "c">>,
        <<"m", "e", "n", "'", "s", " ", "e", "t", "h", "n", "i", "c">>>>,
     <<<<"m", "e", "n", " ", "e", "t", "h", "n", "i", "c", "s">>,
        <<"m", "e", "n", "'", "s", " ", "e", "t", "h", "n", "i", "c">>>>,
     <<<<"m", "e", "n", "s", " ", "r", "e", "a", "d", "y", "m", "a", "d", "e">>,
        <<"m", "e", "n", "'", "s", " ", "r", "e", "a", "d", "y", "m", "a", "d", "e">>>>,
     <<<<"m", "e", "n", " ", "r", "e", "a", "d", "y", "m", "a", "d", "e">>,
        <<"m", "e", "n", "'", "s", " ", "r", "e", "a", "d", "y", "m", "a", "d", "e">>>>,
     <<<<"s", "h", "i", "r", "t", "i", "n", "g">>,
        <<"s", "h", "u", "t", "t", "i", "n", "g", " ", "s", "h", "i", "r", "t", "i", "n", "g">>>>,
     <<<<"s", "h", "i", "r", "t", "i", "n", "g", " ", "s", "h", "u", "t", "t", "i", "n", "g">>,
        <<"s", "h", "u", "t", "t", "i", "n", "g", " ", "s", "h", "i", "r", "t", "i", "n", "g">>>>,
     <<<<"s", "h", "u", "t", "t", "i", "n", "g">>,
        <<"s", "h", "u", "t", "t", "i", "n", "g", " ", "s", "h", "i", "r", "t", "i", "n", "g">>>>,
     <<<<"w", "o", "m", "e", "n", "s", " ", "e", "t", "h", "n", "i", "c">>,
        <<"w", "o", "m", "e", "n", "'", "s", " ", "e", "t", "h", "n", "i", "c">>>>,
     <<<<"w", "o", "m", "e", "n", "s", " ", "e", "t", "h", "n", "i", "s">>,
        <<"w", "o", "m", "e", "n", "'", "s", " ", "e", "t", "h", "n", "i", "c">>>>,
     <<<<"w", "o", "m", "e", "n", " ", "e", "t", "h", "n", "i", "c">>,
        <<"w", "o", "m", "e", "n", "'", "s", " ", "e", "t", "h", "n", "i", "c">>>>,
     <<<<"w", "o", "m", "e", "n", " ", "e", "t", "h", "n", "i", "s">>,
        <<"w", "o", "m", "e", "n", "'", "s", " ", "e", "t", "h", "n", "i", "c">>>>,
     <<<<"s", "a", "r", "e", "e">>,
        <<"s", "a", "r", "e", "e", "s">>>>,
     <<<<"s", "a", "r", "i">>,
        <<"s", "a", "r", "e", "e", "s">>>>,
     <<<<"s", "a", "r", "i", "s">>,
        <<"s", "a", "r", "e", "e", "s">>>> >>

\* normalizeDepartment: exact match, then the variations table, then
\* containment in either direction against each master name in list order,
\* otherwise the lower-cased trimmed input
normalizeDepartment(department) ==
  LET normalized == trim(toLowerCase(department))
      hits == {i \in DOMAIN variations : variations[i][1] = normalized}
      contained == {i \in DOMAIN MASTER_DEPARTMENTS :
                      \/ includes(normalized, MASTER_DEPARTMENTS[i])
                      \/ includes(MASTER_DEPARTMENTS[i], normalized)}
  IN  IF normalized \in Range(MASTER_DEPARTMENTS) THEN normalized
      ELSE IF hits # {} THEN variations[CHOOSE i \in hits : TRUE][2]
      ELSE IF contained # {}
           THEN MASTER_DEPARTMENTS[CHOOSE i \in contained : \A j \in contained : i <= j]
      ELSE normalized

\* formatDepartmentCounter: '' when the normalized name is not a master
\* department, else the master name, followed by " (counter)" when a counter
\* is given
formatDepartmentCounter(department, counter) ==
  LET normalizedDepartment == normalizeDepartment(department)
  IN  IF normalizedDepartment \notin Range(MASTER_DEPARTMENTS) THEN <<>>
      ELSE IF normalizedDepartment # <<>> /\ counter # <<>>
           THEN normalizedDepartment \o <<" ", "(">> \o counter \o <<")">>
      ELSE IF normalizedDepartment # <<>> THEN normalizedDepartment
      ELSE <<>>

(***************************************************************************)
(* JavaScript Map and Set keep insertion order: a Map is a sequence of     *)
(* << key, value >> pairs with distinct keys, a Set a sequence without     *)
(* repetition.                                                             *)
(***************************************************************************)
MapHas(m, k) == \E i \in DOMAIN m : m[i][1] = k
MapGet(m, k) == m[CHOOSE i \in DOMAIN m : m[i][1] = k][2]
MapSet(m, k, v) ==
  IF MapHas(m, k) THEN [i \in DOMAIN m |-> IF m[i][1] = k THEN <<k, v>> ELSE m[i]]
  ELSE Append(m, <<k, v>>)
MapKeys(m) == {m[i][1] : i \in DOMAIN m}
SetAdd(s, x) == IF x \in Range(s) THEN s ELSE Append(s, x)

(***************************************************************************)
(* Header resolution (parseWorkbook, lines 168-229).                       *)
(***************************************************************************)
voucherNoAliases ==
  << <<"v", "o", "u", "c", "h", "e", "r", " ", "n", "o">> >>

voucherDateAliases ==
  << <<"v", "o", "u", "c", "h", "e", "r", " ", "d", "a", "t", "e">>,
     <<"d", "a", "t", "e">> >>

salesmanAliases ==
  << <<"s", "a", "l", "e", "s", "m", "a", "n", " ", "n", "a", "m", "e">>,
     <<"s", "a", "l", "e", "s", " ", "p", "e", "r", "s", "o", "n">> >>

departmentNameAliases ==
  << <<"d", "e", "p", "a", "r", "t", "m", "e", "n", "t", " ", "n", "a", "m", "e">>,
     <<"d", "e", "p", "a", "r", "t", "m", "e", "n", "t">>,
     <<"d", "e", "p", "t", " ", "n", "a", "m", "e">>,
     <<"m", "a", "i", "n", " ", "c", "a", "t", "e", "g", "o", "r", "y">> >>

itemGroupAliases ==
  << <<"i", "t", "e", "m", "g", "r", "o", "u", "p", " ", "n", "a", "m", "e">>,
     <<"i", "t", "e", "m", " ", "g", "r", "o", "u", "p", " ", "n", "a", "m", "e">>,
     <<"i", "t", "e", "m", " ", "g", "r", "o", "u", "p">>,
     <<"s", "u", "b", " ", "c", "a", "t", "e", "g", "o", "r", "y">>,
     <<"s", "u", "b", "c", "a", "t", "e", "g", "o", "r", "y">> >>

counterAliases ==
  << <<"c", "o", "u", "n", "t", "e", "r", " ", "n", "a", "m", "e">>,
     <<"c", "o", "u", "n", "t", "e", "r">> >>

mobileAliases ==
  << <<"m", "o", "b", "i", "l", "e", "1">>,
     <<"c", "u", "s", "t", "o", "m", "e", "r", " ", "i", "d">>,
     <<"c", "u", "s", "t", "o", "m", "e", "r", " ", "m", "o", "b", "i", "l", "e">> >>

accountNameAliases ==
  << <<"a", "c", "c", "o", "u", "n", "t", " ", "n", "a", "m", "e">>,
     <<"c", "u", "s", "t", "o", "m", "e", "r", " ", "n", "a", "m", "e">>,
     <<"a", "c", "c", "o", "u", "n", "t">> >>

salesTypeAliases ==
  << <<"s", "a", "l", "e", "s", " ", "t", "y", "p", "e">>,
     <<"t", "y", "p", "e">>,
     <<"t", "r", "a", "n", "s", "a", "c", "t", "i", "o", "n", " ", "t", "y", "p", "e">>,
     <<"s", "a", "l", "e", " ", "t", "y", "p", "e">> >>


HEADER_ROW_NUMBER == 4

\* what findIndex and the loop of findHeaderIndex return when the test holds
\* at the (1-based) positions found: the first of them, 0-based, or -1
firstIndexOf(found) ==
  IF found = {} THEN -1 ELSE (CHOOSE i \in found : \A j \in found : i <= j) - 1

\* rows.findIndex((row) => row.some((value) => stringifyCell(value) !== '')),
\* 0-based, -1 when every row is blank
firstNonBlankRowIndex(sheet) ==
  firstIndexOf({i \in DOMAIN sheet : \E c \in DOMAIN sheet[i] : stringifyCell(sheet[i][c]) # <<>>})

\* headerRowIndex (lines 161-163)
headerRowIndexOf(sheet) ==
  IF HEADER_ROW_NUMBER - 1 < Len(sheet) THEN HEADER_ROW_NUMBER - 1
  ELSE firstNonBlankRowIndex(sheet)

\* normalizedHeader: the header cells, stringified, quotes normalized, trimmed
normalizedHeaderOf(hdr) ==
  [i \in DOMAIN hdr |-> trim(normalizeQuotes(stringifyCell(hdr[i])))]

\* headerLookup: the normalized header labels, lower-cased
headerLookupOf(hdr) ==
  [i \in DOMAIN hdr |-> toLowerCase(normalizedHeaderOf(hdr)[i])]

\* HeaderCellMatches accepting only a label equal to a needle
HeaderCellMatches_exactOnly(hdr, i, needles) ==
  LET headerLabel == headerLookupOf(hdr)[i]
  IN  /\ headerLabel # <<>>
      /\ \E t \in DOMAIN needles : headerLabel = toLowerCase(needles[t])

\* the test findHeaderIndex applies to the header cell at (1-based) position i
HeaderCellMatches(hdr, i, needles) ==
  \E headerLabel \in {headerLookupOf(hdr)[i]} :
    /\ headerLabel # <<>>
    /\ \E target \in {toLowerCase(needles[t]) : t \in DOMAIN needles} :
         \/ headerLabel = target
         \/ includes(headerLabel, target)
         \/ toLowerCase(normalizedHeaderOf(hdr)[i]) = target

\* findHeaderIndex: the 0-based index of the first header cell from the left
\* that matches one of the needles, -1 when there is none
findHeaderIndex(hdr, needles) ==
  firstIndexOf({i \in DOMAIN hdr : HeaderCellMatches(hdr, i, needles)})

ColumnIndices(hdr) ==
  [voucherNoIndex |-> findHeaderIndex(hdr, voucherNoAliases),
   voucherDateIndex |-> findHeaderIndex(hdr, voucherDateAliases),
   firstSalesmanIndex |-> findHeaderIndex(hdr, salesmanAliases),
   departmentNameIndex |-> findHeaderIndex(hdr, departmentNameAliases),
   itemGroupIndex |-> findHeaderIndex(hdr, itemGroupAliases),
   counterIndex |-> findHeaderIndex(hdr, counterAliases),
   firstMobileIndex |-> findHeaderIndex(hdr, mobileAliases),
   accountNameIndex |-> findHeaderIndex(hdr, accountNameAliases),
   salesTypeIndex |-> findHeaderIndex(hdr, salesTypeAliases)]

NoColumns ==
  [voucherNoIndex |-> -1, voucherDateIndex |-> -1, firstSalesmanIndex |-> -1,
   departmentNameIndex |-> -1, itemGroupIndex |-> -1, counterIndex |-> -1,
   firstMobileIndex |-> -1, accountNameIndex |-> -1, salesTypeIndex |-> -1]

s_SalesmanName == <<"S", "a", "l", "e", "s", "m", "a", "n", " ", "N", "a", "m", "e">>
s_ItemGroupName == <<"I", "t", "e", "m", " ", "G", "r", "o", "u", "p", " ", "N", "a", "m", "e">>
s_Mobile1 == <<"M", "o", "b", "i", "l", "e", "1">>
s_UnknownSalesman == <<"U", "n", "k", "n", "o", "w", "n", " ", "S", "a", "l", "e", "s", "m", "a", "n">>

\* missingColumns without the push for the customer column
missingColumnsOf_noMobile(idx) ==
  (IF idx.firstSalesmanIndex = -1 THEN <<s_SalesmanName>> ELSE <<>>)
  \o (IF idx.itemGroupIndex = -1 THEN <<s_ItemGroupName>> ELSE <<>>)

\* missingColumns, in the order the code pushes them
missingColumnsOf(idx) ==
  (IF idx.firstSalesmanIndex = -1 THEN <<s_SalesmanName>> ELSE <<>>)
  \o (IF idx.itemGroupIndex = -1 THEN <<s_ItemGroupName>> ELSE <<>>)
  \o (IF idx.firstMobileIndex = -1 THEN <<s_Mobile1>> ELSE <<>>)

\* normalizedHeader.filter(h => h)
RECURSIVE nonEmptyLabels(_)
nonEmptyLabels(labels) ==
  IF labels = <<>> THEN <<>>
  ELSE (IF Head(labels) # <<>> THEN <<Head(labels)>> ELSE <<>>) \o nonEmptyLabels(Tail(labels))

NoError == [kind |-> "none", missing |-> <<>>, found |-> <<>>]

\* the Error thrown at lines 224-228: the two interpolated parts of its message
MissingColumnsError(hdr, idx) ==
  [kind |-> "MissingColumns",
   missing |-> join(missingColumnsOf(idx), <<",", " ">>),
   found |-> join(nonEmptyLabels(normalizedHeaderOf(hdr)), <<",", " ">>)]

\* the Errors thrown at lines 158 and 165
EmptyWorksheetError == [kind |-> "EmptyWorksheet", missing |-> <<>>, found |-> <<>>]
NoHeaderRowError == [kind |-> "NoHeaderRow", missing |-> <<>>, found |-> <<>>]

\* the Error thrown at lines 492-500
NoDataError == [kind |-> "NoData", missing |-> <<>>, found |-> <<>>]

(***************************************************************************)
(* Row ingestion (parseWorkbook, lines 249-376).                           *)
(***************************************************************************)
\* row[index]; a cell beyond the end of the row is undefined
CellAt(row, index) == IF index + 1 \in DOMAIN row THEN row[index + 1] ELSE Null

\* row.every((cell) => stringifyCell(cell) === '')
IsBlankRow(row) == \A i \in DOMAIN row : stringifyCell(row[i]) = <<>>

salesTypeRawOf(row, idx) ==
  IF idx.salesTypeIndex # -1 THEN stringifyCell(CellAt(row, idx.salesTypeIndex)) ELSE <<>>

\* isSale comparing the raw cell text without lower-casing it
isSale_caseSensitive(salesTypeRaw) ==
  \/ salesTypeRaw = <<"s", "a", "l", "e">>
  \/ salesTypeRaw = <<"s", "a", "l", "e", "s">>
  \/ salesTypeRaw = <<"S", "a", "l", "e">>

\* isSale
isSale(salesTypeRaw) ==
  LET salesType == normalizeKey(Str(salesTypeRaw))
  IN  \/ salesType = <<"s", "a", "l", "e">>
      \/ salesType = <<"s", "a", "l", "e", "s">>
      \/ toLowerCase(salesTypeRaw) = <<"s", "a", "l", "e">>

\* the condition of the `continue` at line 265
IsSkippedSalesType(row, idx) ==
  /\ idx.salesTypeIndex # -1
  /\ salesTypeRawOf(row, idx) # <<>>
  /\ ~isSale(salesTypeRawOf(row, idx))

dateInfoOf(row, idx) ==
  IF idx.voucherDateIndex # -1 THEN parseDateCell(CellAt(row, idx.voucherDateIndex))
  ELSE UnknownDateInfo

rawSalesmanOf(row, idx) == stringifyCell(CellAt(row, idx.firstSalesmanIndex))
rawItemGroupOf(row, idx) == stringifyCell(CellAt(row, idx.itemGroupIndex))
rawCounterOf(row, idx) ==
  IF idx.counterIndex # -1 THEN stringifyCell(CellAt(row, idx.counterIndex)) ELSE <<>>
rawCustomerOf(row, idx) == stringifyCell(CellAt(row, idx.firstMobileIndex))
\* rawAccountName || null, with <<>> standing for null
rawAccountNameOf(row, idx) ==
  IF idx.accountNameIndex # -1 THEN stringifyCell(CellAt(row, idx.accountNameIndex)) ELSE <<>>

\* departmentLabel (lines 302-311): the catalog's label, or the raw item group
\* (with its counter) when the catalog returns ''
departmentLabelOf(rawItemGroup, rawCounter) ==
  LET label == formatDepartmentCounter(rawItemGroup, rawCounter)
  IN  IF label = <<>> /\ rawItemGroup # <<>>
      THEN IF rawCounter # <<>>
           THEN trim(rawItemGroup) \o <<" ", "(">> \o rawCounter \o <<")">>
           ELSE trim(rawItemGroup)
      ELSE label

rowLabel(row, idx) == departmentLabelOf(rawItemGroupOf(row, idx), rawCounterOf(row, idx))
rowSalesmanKey(row, idx) == normalizeKey(Str(rawSalesmanOf(row, idx)))
rowCustomerKey(row, idx) == normalizeKey(Str(rawCustomerOf(row, idx)))
\* visitKey = `${customerKey}__${dateInfo.key}`
rowVisitKey(row, idx) == rowCustomerKey(row, idx) \o <<"_", "_">> \o dateInfoOf(row, idx).key

salesmanNameOf(rawSalesman) == IF rawSalesman # <<>> THEN rawSalesman ELSE s_UnknownSalesman

\* the values the loop body extracts from one row (lines 272-311, 344)
RowFacts(row, idx) ==
  [isBlank |-> IsBlankRow(row),
   isSkippedSalesType |-> IsSkippedSalesType(row, idx),
   dateInfo |-> dateInfoOf(row, idx),
   rawSalesman |-> rawSalesmanOf(row, idx),
   rawCustomer |-> rawCustomerOf(row, idx),
   rawAccountName |-> rawAccountNameOf(row, idx),
   salesmanKey |-> rowSalesmanKey(row, idx),
   customerKey |-> rowCustomerKey(row, idx),
   departmentLabel |-> rowLabel(row, idx),
   visitKey |-> rowVisitKey(row, idx)]

\* lines 273-278, without the display labels
AddAvailableDate(dates, f) ==
  IF f.dateInfo.iso # <<>> THEN SetAdd(dates, f.dateInfo.iso) ELSE dates

\* lines 330-339
AddSalesmanDepartment(sd, f) ==
  LET cur == IF MapHas(sd, f.salesmanKey) THEN MapGet(sd, f.salesmanKey)
             ELSE [name |-> salesmanNameOf(f.rawSalesman), departments |-> <<>>]
  IN  IF f.salesmanKey # <<>> /\ f.departmentLabel # <<>>
      THEN MapSet(sd, f.salesmanKey,
                  [cur EXCEPT !.departments = SetAdd(@, f.departmentLabel)])
      ELSE sd

\* lines 343-357
AddCustomerSalesman(cs, f) ==
  LET forVisit == IF MapHas(cs, f.visitKey) THEN MapGet(cs, f.visitKey) ELSE <<>>
      cur == IF MapHas(forVisit, f.salesmanKey) THEN MapGet(forVisit, f.salesmanKey)
             ELSE [name |-> salesmanNameOf(f.rawSalesman), departments |-> <<>>]
  IN  IF f.salesmanKey # <<>> /\ f.customerKey # <<>> /\ f.departmentLabel # <<>>
      THEN MapSet(cs, f.visitKey,
                  MapSet(forVisit, f.salesmanKey,
                         [cur EXCEPT !.departments = SetAdd(@, f.departmentLabel)]))
      ELSE cs

\* lines 361-373
AddCustomerVisit(cv, f) ==
  LET cur == IF MapHas(cv, f.visitKey) THEN MapGet(cv, f.visitKey)
             ELSE [customerId |-> f.rawCustomer,
                   customerName |-> f.rawAccountName,
                   departments |-> <<>>,
                   dateIso |-> f.dateInfo.iso,
                   dateKey |-> f.dateInfo.key]
  IN  IF f.customerKey # <<>> /\ f.departmentLabel # <<>>
      THEN MapSet(cv, f.visitKey, [cur EXCEPT !.departments = SetAdd(@, f.departmentLabel)])
      ELSE cv

(***************************************************************************)
(* Incentive tier.                                                         *)
(***************************************************************************)
\* calculateIncentiveForDepartments with the top tier starting above 5
calculateIncentive_above5(departmentCount) ==
  IF departmentCount > 5 THEN 80
  ELSE IF departmentCount = 4 THEN 60
  ELSE IF departmentCount = 3 THEN 40
  ELSE IF departmentCount = 2 THEN 20
  ELSE 0

\* calculateIncentiveForDepartments
calculateIncentiveForDepartments(departmentCount) ==
  IF departmentCount >= 5 THEN 80
  ELSE IF departmentCount = 4 THEN 60
  ELSE IF departmentCount = 3 THEN 40
  ELSE IF departmentCount = 2 THEN 20
  ELSE 0

(***************************************************************************)
(* Incentive attribution and metrics (parseWorkbook, lines 378-508).       *)
(***************************************************************************)
\* add every element of xs to the Set s, in order
RECURSIVE SetAddAll(_, _)
SetAddAll(s, xs) == IF xs = <<>> THEN s ELSE SetAddAll(SetAdd(s, Head(xs)), Tail(xs))

\* uniqueVisitedDepartments (lines 384-387): the visit's own departments, then
\* the departments of every salesman linked to the visit
RECURSIVE AddSalesmenDepartments(_, _)
AddSalesmenDepartments(depts, salesmen) ==
  IF salesmen = <<>> THEN depts
  ELSE AddSalesmenDepartments(SetAddAll(depts, Head(salesmen)[2].departments), Tail(salesmen))

\* uniqueVisitedDepartments seeded empty instead of with the visit's own set
uniqueVisitedDepartments_salesmenOnly(visitInfo, salesmenForVisit) ==
  AddSalesmenDepartments(<<>>, salesmenForVisit)

uniqueVisitedDepartmentsOf(visitInfo, salesmenForVisit) ==
  AddSalesmenDepartments(visitInfo.departments, salesmenForVisit)

\* VisitEntries with the amount divided among the visit's salesmen
VisitEntries_split(cs, visitKey, visitInfo) ==
  LET salesmenForVisit == IF MapHas(cs, visitKey) THEN MapGet(cs, visitKey) ELSE <<>>
      uniqueVisitedDepartments == uniqueVisitedDepartmentsOf(visitInfo, salesmenForVisit)
      departmentsVisitedCount == Len(uniqueVisitedDepartments)
      incentiveAmount == calculateIncentiveForDepartments(departmentsVisitedCount)
  IN  IF salesmenForVisit = <<>> THEN <<>>
      ELSE IF incentiveAmount = 0 THEN <<>>
      ELSE [i \in DOMAIN salesmenForVisit |->
              << salesmenForVisit[i][1],
                 salesmenForVisit[i][2].name,
                 [customerId |-> visitInfo.customerId,
                  customerName |-> visitInfo.customerName,
                  amount |-> incentiveAmount \div Len(salesmenForVisit),
                  departmentsVisited |-> departmentsVisitedCount,
                  visitedDepartments |-> uniqueVisitedDepartments,
                  handledDepartments |-> salesmenForVisit[i][2].departments,
                  dateKey |-> visitInfo.dateKey,
                  dateIso |-> visitInfo.dateIso] >>]

\* the entries one visit pushes (lines 378-420), as << salesmanKey, name, entry >>
VisitEntries(cs, visitKey, visitInfo) ==
  LET salesmenForVisit == IF MapHas(cs, visitKey) THEN MapGet(cs, visitKey) ELSE <<>>
      uniqueVisitedDepartments == uniqueVisitedDepartmentsOf(visitInfo, salesmenForVisit)
      departmentsVisitedCount == Len(uniqueVisitedDepartments)
      incentiveAmount == calculateIncentiveForDepartments(departmentsVisitedCount)
  IN  IF salesmenForVisit = <<>> THEN <<>>
      ELSE IF incentiveAmount = 0 THEN <<>>
      ELSE [i \in DOMAIN salesmenForVisit |->
              << salesmenForVisit[i][1],
                 salesmenForVisit[i][2].name,
                 [customerId |-> visitInfo.customerId,
                  customerName |-> visitInfo.customerName,
                  amount |-> incentiveAmount,
                  departmentsVisited |-> departmentsVisitedCount,
                  visitedDepartments |-> uniqueVisitedDepartments,
                  handledDepartments |-> salesmenForVisit[i][2].departments,
                  dateKey |-> visitInfo.dateKey,
                  dateIso |-> visitInfo.dateIso] >>]

RECURSIVE AllVisitEntries(_, _)
AllVisitEntries(cv, cs) ==
  IF cv = <<>> THEN <<>>
  ELSE VisitEntries(cs, Head(cv)[1], Head(cv)[2]) \o AllVisitEntries(Tail(cv), cs)

\* breakdownMap after the loop over customerVisits
RECURSIVE PushEntries(_, _)
PushEntries(bm, entries) ==
  IF entries = <<>> THEN bm
  ELSE LET e == Head(entries)
           cur == IF MapHas(bm, e[1]) THEN MapGet(bm, e[1])
                  ELSE [name |-> e[2], breakdown |-> <<>>]
       IN  PushEntries(MapSet(bm, e[1], [cur EXCEPT !.breakdown = Append(@, e[3])]),
                       Tail(entries))

breakdownMapOf(cv, cs) == PushEntries(<<>>, AllVisitEntries(cv, cs))

\* collation order of String.prototype.localeCompare over the characters used:
\* spaces, punctuation, digits, letters; case decides only between otherwise
\* equal strings, lower case first
CollationOrder ==
  << " ", "_", "-", ",", "'", "(", ")", "0", "1", "2", "3", "4", "5", "6", "7", "8", "9",
     "a", "b", "c", "d", "e", "f", "g", "h", "i", "j", "k", "l", "m",
     "n", "o", "p", "q", "r", "s", "t", "u", "v", "w", "x", "y", "z" >>

CollationRank(c) == CHOOSE i \in DOMAIN CollationOrder : CollationOrder[i] = c

RECURSIVE comparePrimary(_, _)
comparePrimary(a, b) ==
  IF a = <<>> /\ b = <<>> THEN 0
  ELSE IF a = <<>> THEN -1
  ELSE IF b = <<>> THEN 1
  ELSE IF CollationRank(Head(a)) < CollationRank(Head(b)) THEN -1
  ELSE IF CollationRank(Head(a)) > CollationRank(Head(b)) THEN 1
  ELSE comparePrimary(Tail(a), Tail(b))

RECURSIVE compareCase(_, _)
compareCase(a, b) ==
  IF a = <<>> \/ b = <<>> THEN 0
  ELSE IF Head(a) = Head(b) THEN compareCase(Tail(a), Tail(b))
  ELSE IF Head(a) \in DOMAIN UpperToLower THEN 1 ELSE -1

\* localeCompare comparing code units: every upper-case letter before every
\* lower-case letter
RECURSIVE localeCompare_codeUnits(_, _)
localeCompare_codeUnits(a, b) ==
  IF a = <<>> /\ b = <<>> THEN 0
  ELSE IF a = <<>> THEN -1
  ELSE IF b = <<>> THEN 1
  ELSE IF Head(a) = Head(b) THEN localeCompare_codeUnits(Tail(a), Tail(b))
  ELSE IF Head(a) \in DOMAIN UpperToLower /\ Head(b) \notin DOMAIN UpperToLower THEN -1
  ELSE IF Head(a) \notin DOMAIN UpperToLower /\ Head(b) \in DOMAIN UpperToLower THEN 1
  ELSE comparePrimary(toLowerCase(<<Head(a)>>), toLowerCase(<<Head(b)>>))

\* a.localeCompare(b)
localeCompare(a, b) ==
  LET primary == comparePrimary(toLowerCase(a), toLowerCase(b))
  IN  IF primary # 0 THEN primary ELSE compareCase(a, b)

\* compareBreakdown without the final comparison of the amounts
compareBreakdown_dateOnly(a, b) ==
  IF a.dateIso # <<>> /\ b.dateIso # <<>> /\ a.dateIso # b.dateIso
  THEN localeCompare(b.dateIso, a.dateIso)
  ELSE IF a.dateIso # <<>> /\ b.dateIso = <<>> THEN -1
  ELSE IF a.dateIso = <<>> /\ b.dateIso # <<>> THEN 1
  ELSE 0

\* the comparator of breakdown.sort (lines 426-437)
compareBreakdown(a, b) ==
  IF a.dateIso # <<>> /\ b.dateIso # <<>> /\ a.dateIso # b.dateIso
  THEN localeCompare(b.dateIso, a.dateIso)
  ELSE IF a.dateIso # <<>> /\ b.dateIso = <<>> THEN -1
  ELSE IF a.dateIso = <<>> /\ b.dateIso # <<>> THEN 1
  ELSE b.amount - a.amount

\* Array.prototype.sort (stable) with compareBreakdown
RECURSIVE insertBreakdown(_, _)
insertBreakdown(sorted, x) ==
  IF sorted = <<>> THEN <<x>>
  ELSE IF compareBreakdown(x, Head(sorted)) < 0 THEN <<x>> \o sorted
  ELSE <<Head(sorted)>> \o insertBreakdown(Tail(sorted), x)

RECURSIVE sortBreakdown(_)
sortBreakdown(list) ==
  IF list = <<>> THEN <<>>
  ELSE insertBreakdown(sortBreakdown(SubSeq(list, 1, Len(list) - 1)), list[Len(list)])

RECURSIVE sumAmounts(_)
sumAmounts(list) == IF list = <<>> THEN 0 ELSE Head(list).amount + sumAmounts(Tail(list))

\* metrics pushed from breakdownMap (lines 424-445)
metricsFromBreakdown(bm, sd) ==
  [i \in DOMAIN bm |->
     [name |-> bm[i][2].name,
      departments |-> IF MapHas(sd, bm[i][1]) THEN MapGet(sd, bm[i][1]).departments ELSE <<>>,
      totalIncentive |-> sumAmounts(sortBreakdown(bm[i][2].breakdown)),
      breakdown |-> sortBreakdown(bm[i][2].breakdown)]]

\* metricsWithoutBreakdown without the loop of lines 447-456
metricsWithoutBreakdown_none(sd, bm) == <<>>

\* metrics pushed for the salesmen without breakdown (lines 447-456)
RECURSIVE metricsWithoutBreakdown(_, _)
metricsWithoutBreakdown(sd, bm) ==
  IF sd = <<>> THEN <<>>
  ELSE (IF ~MapHas(bm, Head(sd)[1])
        THEN << [name |-> Head(sd)[2].name,
                 departments |-> Head(sd)[2].departments,
                 totalIncentive |-> 0,
                 breakdown |-> <<>>] >>
        ELSE <<>>) \o metricsWithoutBreakdown(Tail(sd), bm)

\* the comparator of metrics.sort (line 458)
compareMetrics(a, b) ==
  IF b.totalIncentive - a.totalIncentive # 0 THEN b.totalIncentive - a.totalIncentive
  ELSE localeCompare(a.name, b.name)

RECURSIVE insertMetric(_, _)
insertMetric(sorted, x) ==
  IF sorted = <<>> THEN <<x>>
  ELSE IF compareMetrics(x, Head(sorted)) < 0 THEN <<x>> \o sorted
  ELSE <<Head(sorted)>> \o insertMetric(Tail(sorted), x)

RECURSIVE sortMetrics(_)
sortMetrics(list) ==
  IF list = <<>> THEN <<>>
  ELSE insertMetric(sortMetrics(SubSeq(list, 1, Len(list) - 1)), list[Len(list)])

\* sortedMetrics
sortedMetricsOf(cv, cs, sd) ==
  LET bm == breakdownMapOf(cv, cs)
  IN  sortMetrics(metricsFromBreakdown(bm, sd) \o metricsWithoutBreakdown(sd, bm))

(***************************************************************************)
(* Worksheets the model reads.                                             *)
(***************************************************************************)
h_VoucherDate == <<"V", "o", "u", "c", "h", "e", "r", " ", "D", "a", "t", "e">>
h_SalesmanName == <<"S", "a", "l", "e", "s", "m", "a", "n", " ", "N", "a", "m", "e">>
h_Staff == <<"S", "t", "a", "f", "f">>
h_ItemGroupName == <<"I", "t", "e", "m", "G", "r", "o", "u", "p", " ", "N", "a", "m", "e">>
h_Category == <<"C", "a", "t", "e", "g", "o", "r", "y">>
h_CounterName == <<"C", "o", "u", "n", "t", "e", "r", " ", "N", "a", "m", "e">>
h_Mobile1 == <<"M", "o", "b", "i", "l", "e", "1">>
h_Phone == <<" ", "P", "h", "o", "n", "e", " ">>
h_AccountName == <<"A", "c", "c", "o", "u", "n", "t", " ", "N", "a", "m", "e">>
h_SalesType == <<"S", "a", "l", "e", "s", " ", "T", "y", "p", "e">>
h_Remarks == <<"R", "e", "m", "a", "r", "k", "s">>
t_Ann == <<"A", "n", "n">>
t_Bob == <<"B", "o", "b">>
t_kurta == <<"k", "u", "r", "t", "a">>
t_Kurta == <<"K", "u", "r", "t", "a">>
t_Saree == <<"S", "a", "r", "e", "e">>
t_sarees == <<"s", "a", "r", "e", "e", "s">>
t_toys == <<"t", "o", "y", "s">>
t_K1 == <<"K", "1">>
t_K2 == <<"K", "2">>
t_c1 == <<"c", "1">>
t_C1 == <<"C", "1">>
t_a == <<"a">>
t_a__b == <<"a", "_", "_", "b">>
t_z == <<"z">>
t_b__z == <<"b", "_", "_", "z">>
t_Carol == <<"C", "a", "r", "o", "l">>
t_Sale == <<"S", "a", "l", "e">>
t_SALES == <<"S", "A", "L", "E", "S">>
t_sale == <<" ", "s", "a", "l", "e">>
t_Return == <<"R", "e", "t", "u", "r", "n">>

\* header rows: columns are date, salesman, item group, counter, customer,
\* account name, sales type; the labels of the salesman, item group, customer
\* and sales-type columns vary
HeaderRows ==
  { << Str(h_VoucherDate), salesman, itemGroup, Str(h_CounterName), mobile,
       Str(h_AccountName), salesType >> :
      salesman \in {Str(h_SalesmanName), Str(h_Staff), Null},
      itemGroup \in {Str(h_ItemGroupName), Str(h_Category)},
      mobile \in {Str(h_Mobile1), Str(h_Phone)},
      salesType \in {Str(h_SalesType), Str(h_Remarks)} }

Row(date, salesman, itemGroup, counter, customer, account, salesType) ==
  << date, salesman, itemGroup, counter, customer, account, salesType >>

\* data rows: matched, aliased and unmatched item groups, blank cells, two
\* counters, customer ids equal up to case, a numeric customer id, ids and
\* date texts containing the key separator, a date serial, sales types
DataRows ==
  { Row(Null, Str(t_Ann), Str(t_kurta), Null, Str(t_c1), Str(t_Carol), Str(t_Sale)),
    Row(Null, Str(t_Bob), Str(t_Saree), Null, Str(t_C1), Null, Null),
    Row(Null, Null, Str(t_toys), Null, Str(t_c1), Null, Str(t_SALES)),
    Row(Null, Null, Str(t_kurta), Null, Str(t_c1), Null, Null),
    Row(Null, Str(t_Ann), Str(t_toys), Null, Str(t_c1), Null, Str(t_sale)),
    Row(Null, Str(t_Ann), Null, Str(t_K1), Str(t_c1), Null, Str(t_Sale)),
    Row(Null, Str(t_Ann), Str(t_Kurta), Str(t_K1), Str(t_c1), Null, Str(t_Sale)),
    Row(Null, Str(t_Bob), Str(t_kurta), Str(t_K2), Str(t_c1), Null, Str(t_Sale)),
    Row(Null, Str(t_Ann), Str(t_sarees), Null, Num(7), Null, Str(t_Return)),
    Row(Str(t_z), Str(t_Ann), Str(t_kurta), Null, Str(t_a__b), Null, Str(t_Sale)),
    Row(Str(t_b__z), Str(t_Bob), Str(t_sarees), Null, Str(t_a), Null, Str(t_Sale)),
    Row(Num(45000), Str(t_Ann), Str(t_sarees), Null, Str(t_c1), Null, Str(t_Sale)),
    Row(Null, Str(t_Ann), Null, Null, Null, Null, Str(t_Sale)),
    Row(Null, Null, Null, Null, Null, Null, Null) }

\* calendar days with their spreadsheet date serial and their ISO text
CalendarDays ==
  { [y |-> 1900, m |-> 1, d |-> 1, serial |-> 1,
     text |-> <<"1", "9", "0", "0", "-", "0", "1", "-", "0", "1">>],
    [y |-> 1900, m |-> 2, d |-> 28, serial |-> 59,
     text |-> <<"1", "9", "0", "0", "-", "0", "2", "-", "2", "8">>],
    [y |-> 1900, m |-> 3, d |-> 1, serial |-> 61,
     text |-> <<"1", "9", "0", "0", "-", "0", "3", "-", "0", "1">>],
    [y |-> 2000, m |-> 2, d |-> 29, serial |-> 36585,
     text |-> <<"2", "0", "0", "0", "-", "0", "2", "-", "2", "9">>],
    [y |-> 2023, m |-> 3, d |-> 15, serial |-> 45000,
     text |-> <<"2", "0", "2", "3", "-", "0", "3", "-", "1", "5">>],
    [y |-> 9999, m |-> 12, d |-> 31, serial |-> 2958465,
     text |-> <<"9", "9", "9", "9", "-", "1", "2", "-", "3", "1">>] }

\* the cells that stand for a calendar day: its serial, a Date at the first
\* and at the last second of the UTC day, its ISO text bare and padded
CellsOfDay(c) ==
  { Num(c.serial),
    DateObj(daysFromCivil(c.y, c.m, c.d), 0),
    DateObj(daysFromCivil(c.y, c.m, c.d), 86399),
    Str(c.text),
    Str(<<" ">> \o c.text \o <<" ">>) }

\* the cells parseDateCell is called with: the cells of the calendar days,
\* blank cells, serials 0 and 60, text that is no date, an Invalid Date
DateCells ==
  UNION {CellsOfDay(c) : c \in CalendarDays}
  \cup { Null, Str(<<>>), Str(<<" ", " ">>), NotFinite, Num(0), Num(60),
          Str(t_z), Str(t_b__z), Str(<<" ", "N", " ", "/", " ", "A", " ">>),
          DateObj(InvalidDate, 0) }

\* the texts normalizeKey is called with: two words in several letter cases,
\* straight and curly apostrophes, gaps of no, one or several whitespace
\* characters, with and without whitespace around
KeyTexts ==
  { lead \o first \o gap \o second \o trail :
      first \in { <<"J", "o", "h", "n">>, <<"J", "O", "H", "N">>,
                  <<"m", "e", "n", "'", "s">>,
                  <<"M", "e", "n", "rsquo", "s">>, <<"m", "e", "n", "lsquo", "s">> },
      gap \in { <<>>, <<" ">>, <<" ", "\t", " ">> },
      second \in { <<"D", "o", "e">>, <<"d", "o", "e">> },
      lead \in { <<>>, <<" ", " ">> },
      trail \in { <<>>, <<" ">> } }

\* the kinds of row a worksheet is made of when its header row is located:
\* rows without text, a title row, a header row, a data row
SheetRowKinds ==
  { << Null, Str(<<" ">>) >>,
    << Str(<<>>) >>,
    << Str(<<"S", "a", "l", "e", "s", " ", "R", "e", "p", "o", "r", "t">>) >>,
    << Str(h_SalesmanName), Str(h_ItemGroupName), Str(h_Mobile1) >>,
    << Str(t_Ann), Str(t_kurta), Str(t_c1) >> }

RECURSIVE SheetsOfLength(_)
SheetsOfLength(n) ==
  IF n = 0 THEN {<<>>}
  ELSE {Append(sheet, row) : sheet \in SheetsOfLength(n - 1), row \in SheetRowKinds}

\* header cells findHeaderIndex is tried on: labels equal to an alias,
\* containing one, contained in one, and cells without a label
MatchCells ==
  { Str(h_SalesmanName),
    Str(<<" ", "S", "A", "L", "E", "S", " ", "P", "E", "R", "S", "O", "N", " ", "I", "D", " ">>),
    Str(<<"S", "a", "l", "e", "s", "m", "a", "n">>),
    Str(<<"A", "c", "c", "o", "u", "n", "t">>),
    Str(h_Mobile1),
    Str(<<" ">>),
    Null }

RECURSIVE HeadersOfLength(_)
HeadersOfLength(n) ==
  IF n = 0 THEN {<<>>}
  ELSE {Append(hdr, cell) : hdr \in HeadersOfLength(n - 1), cell \in MatchCells}

\* breakdown entries to sort: three days and two entries without an ISO
\* date, each with the amounts of two tiers
SortEntries ==
  { [dateIso |-> iso, dateKey |-> iso, amount |-> amount] :
      iso \in { <<"2", "0", "2", "2", "-", "1", "2", "-", "3", "1">>,
                <<"2", "0", "2", "3", "-", "0", "3", "-", "1", "5">>,
                <<"2", "0", "2", "3", "-", "0", "3", "-", "1", "6">> },
      amount \in {20, 80} }
  \cup { [dateIso |-> <<>>, dateKey |-> key, amount |-> amount] :
           key \in {UNKNOWN_DATE_KEY, t_z}, amount \in {20, 80} }

RECURSIVE BreakdownsOfLength(_)
BreakdownsOfLength(n) ==
  IF n = 0 THEN {<<>>}
  ELSE {Append(list, e) : list \in BreakdownsOfLength(n - 1), e \in SortEntries}

\* salesperson metrics to sort: names in both letter cases, two totals
SortMetricEntries ==
  { [name |-> name, departments |-> <<>>, totalIncentive |-> total, breakdown |-> <<>>] :
      name \in { t_Ann, <<"a", "n", "n", "a">>, <<"b", "o", "b">>, t_Bob, <<"C", "y">> },
      total \in {0, 20} }

\* the lists of metrics of a given length; as the metrics are built from maps
\* keyed by salesmanKey, no two of them have the same key
RECURSIVE MetricListsOfLength(_)
MetricListsOfLength(n) ==
  IF n = 0 THEN {<<>>}
  ELSE UNION { { Append(list, e) :
                   e \in {x \in SortMetricEntries :
                            \A i \in DOMAIN list :
                              normalizeKey(Str(list[i].name)) # normalizeKey(Str(x.name))} } :
               list \in MetricListsOfLength(n - 1) }

\* RowFacts of every data row under every header, evaluated once
RowFactsTable ==
  [idx \in {ColumnIndices(hdr) : hdr \in HeaderRows} |->
     [row \in DataRows |-> RowFacts(row, idx)]]

(***************************************************************************)
(* State.                                                                  *)
(***************************************************************************)
VARIABLES
  pc,                    \* "header", "rows", "done", "error", or "tier"
  headerRow,             \* rows[headerRowIndex]
  columns,               \* the column indices found by findHeaderIndex
  rows,                  \* the data rows visited by the row loop so far
  salesmanDepartments,   \* Map salesmanKey -> {name, departments}
  customerVisits,        \* Map visitKey -> CustomerVisitInfo
  customerSalesmen,      \* Map visitKey -> Map salesmanKey -> {name, departments}
  availableDates,        \* Set of the ISO dates seen on processed rows
  totalRowsProcessed,
  rowsSkippedSalesType,
  metrics,               \* the metrics parseWorkbook returns
  error,                 \* the Error parseWorkbook throws
  departmentCount,       \* argument of calculateIncentiveForDepartments
  incentiveAmount,       \* its result, -1 before the call
  dateCells,             \* the arguments of the calls of parseDateCell so far
  dateInfos,             \* their outcomes, in the same order
  keyValues,             \* the values normalizeKey is to be called with
  keys,                  \* the keys returned for them so far, in the same order
  sheetRows,             \* the rows of the worksheet, as sheet_to_json returns them
  headerRowIndex,        \* index of the header row among them, -2 before it is located
  targets,               \* the needles findHeaderIndex is called with, as a list
  foundIndex,            \* the index it returns, -2 before the call
  breakdownToSort,       \* a breakdown as pushed, before breakdown.sort
  breakdownSorted,       \* sortedBreakdown, <<>> before the sort
  metricsToSort,         \* the metrics as pushed, before metrics.sort
  metricsSorted,         \* sortedMetrics, <<>> before the sort
  timeframe,             \* Dashboard state: "all", "day" or "week"
  selectedDay,           \* Dashboard state: an ISO date, or <<>> for ''
  weekStart,             \* Dashboard state: an ISO date, or <<>> for ''
  breakdownEntry,        \* the entry filterPredicate is called with
  entryKept,             \* what it returns, "none" before the call
  rawMetrics,            \* Dashboard state: the metrics of the last parse
  computedMetrics,       \* the value of the computedMetrics memo, <<>> before it is computed
  clock,                 \* Save route: the server's clock, as a UTC day number
  customers,             \* the customer table, by normalizedCustomerId
  visits,                \* the customerVisit table, by visitKey
  transactions,          \* the visitTransaction table: the transactions of each visit
  workbook,              \* the customerInteractions and metrics the save requests carry
  requests,              \* each save request's position in POST and its local values
  afterFirstSave,        \* the three tables as the first finished save left them, <<>> before
  customerHeader,        \* parseCustomerData: the header row of the worksheet
  customerSheet,         \* the rows below the header
  customerRowIndex,      \* the number of rows read so far
  customerDateDepartments,\* customerKey -> dateKey -> the departments visited
  departmentName,        \* normalizeDepartment: the raw department name
  canonicalDepartment,   \* what it returns, <<>> before the call
  user,                  \* AuthProvider: the user state, "null" or a user name
  pathname,              \* the current path
  storedUser,            \* localStorage item user: "absent", a user name, or "corrupt" text
  protectPending,        \* TRUE when user or pathname changed and the route protection effect has not run yet
  pushedPath,            \* the path of the router.push under way, "none" without one
  userActions,           \* the number of clicks so far
  isParsing,             \* Dashboard state: isParsing
  uploadError,           \* the error state, "null" or a message
  shownDates,            \* the availableDates state
  dateLabels,            \* the dateLabels state, a list of << iso, label >>
  uniqueSubCategories,   \* the uniqueSubCategories state
  uploads,               \* the calls of handleUpload: the file and the position of each
  calls,                 \* the call table: providerCallId (0 for none) and status of each call
  webhooks               \* the webhook requests: payload, position and the call each has read

vars ==
  << pc, headerRow, columns, rows, salesmanDepartments, customerVisits, customerSalesmen,
     availableDates, totalRowsProcessed, rowsSkippedSalesType, metrics, error, departmentCount,
     incentiveAmount, dateCells, dateInfos, keyValues, keys,
     sheetRows, headerRowIndex, targets, foundIndex, breakdownToSort, breakdownSorted,
     metricsToSort, metricsSorted,
     timeframe, selectedDay, weekStart, breakdownEntry, entryKept,
     rawMetrics, computedMetrics,
     clock, customers, visits, transactions, workbook, requests, afterFirstSave,
     customerHeader, customerSheet, customerRowIndex, customerDateDepartments,
     departmentName, canonicalDepartment,
     user, pathname, storedUser, protectPending, pushedPath, userActions,
     isParsing, uploadError, shownDates, dateLabels, uniqueSubCategories, uploads,
     calls, webhooks >>

parseVars ==
  << headerRow, columns, rows, salesmanDepartments, customerVisits, customerSalesmen,
     availableDates, totalRowsProcessed, rowsSkippedSalesType, metrics, error >>

aggregates == << salesmanDepartments, customerVisits, customerSalesmen, availableDates >>

tierVars == << departmentCount, incentiveAmount >>

dateVars == << dateCells, dateInfos >>

\* the state of the functions exercised on their own
keyVars == << keyValues, keys >>

locateVars == << sheetRows, headerRowIndex >>

findVars == << targets, foundIndex >>

sortVars == << breakdownToSort, breakdownSorted, metricsToSort, metricsSorted >>

filterVars == << timeframe, selectedDay, weekStart, breakdownEntry, entryKept >>

computeVars == << rawMetrics, computedMetrics >>

saveVars == << clock, customers, visits, transactions, workbook, requests, afterFirstSave >>

customerDataVars == << customerHeader, customerSheet, customerRowIndex, customerDateDepartments >>

departmentVars == << departmentName, canonicalDepartment >>

authVars == << user, pathname, storedUser, protectPending, pushedPath, userActions >>

uploadVars == << isParsing, uploadError, shownDates, dateLabels, uniqueSubCategories, uploads >>

callVars == << calls, webhooks >>

helperVars == << dateVars, keyVars, locateVars, findVars, sortVars, filterVars, computeVars, saveVars, customerDataVars, departmentVars, authVars, uploadVars, callVars >>

\* parseWorkbook has not been called
ParseIdle ==
  /\ headerRow = <<>>
  /\ columns = NoColumns
  /\ rows = <<>>
  /\ salesmanDepartments = <<>>
  /\ customerVisits = <<>>
  /\ customerSalesmen = <<>>
  /\ availableDates = <<>>
  /\ totalRowsProcessed = 0
  /\ rowsSkippedSalesType = 0
  /\ metrics = <<>>
  /\ error = NoError

TierIdle == departmentCount = 0 /\ incentiveAmount = -1

DateIdle == dateCells = <<>> /\ dateInfos = <<>>

KeyIdle == keyValues = <<>> /\ keys = <<>>

LocateIdle == sheetRows = <<>> /\ headerRowIndex = -2

FindIdle == targets = <<>> /\ foundIndex = -2

SortIdle ==
  /\ breakdownToSort = <<>> /\ breakdownSorted = <<>>
  /\ metricsToSort = <<>> /\ metricsSorted = <<>>

NoEntry == [dateIso |-> <<>>, dateKey |-> <<>>, amount |-> 0]

FilterIdle ==
  /\ timeframe = "all" /\ selectedDay = <<>> /\ weekStart = <<>>
  /\ breakdownEntry = NoEntry /\ entryKept = "none"

ComputeIdle ==
  rawMetrics = <<>> /\ computedMetrics = <<>>

SaveIdle ==
  /\ clock = 0 /\ customers = <<>> /\ visits = <<>> /\ transactions = <<>>
  /\ workbook = <<>> /\ requests = <<>> /\ afterFirstSave = <<>>

CustomerDataIdle ==
  /\ customerHeader = <<>> /\ customerSheet = <<>> /\ customerRowIndex = 0
  /\ customerDateDepartments = <<>>

DepartmentIdle ==
  departmentName = <<>> /\ canonicalDepartment = <<>>

AuthIdle ==
  /\ user = "null" /\ pathname = "" /\ storedUser = "absent" /\ protectPending = FALSE
  /\ pushedPath = "none" /\ userActions = 0

UploadIdle ==
  /\ isParsing = FALSE /\ uploadError = "null" /\ shownDates = <<>> /\ dateLabels = <<>>
  /\ uniqueSubCategories = <<>> /\ uploads = <<>>

CallsIdle ==
  calls = <<>> /\ webhooks = <<>>

HelpersIdle == DateIdle /\ KeyIdle /\ LocateIdle /\ FindIdle /\ SortIdle /\ FilterIdle /\ ComputeIdle /\ SaveIdle /\ CustomerDataIdle /\ DepartmentIdle /\ AuthIdle /\ UploadIdle /\ CallsIdle

(***************************************************************************)
(* parseWorkbook.                                                          *)
(***************************************************************************)
Init ==
  /\ pc = "header"
  /\ headerRow \in HeaderRows
  /\ columns = NoColumns
  /\ rows = <<>>
  /\ salesmanDepartments = <<>>
  /\ customerVisits = <<>>
  /\ customerSalesmen = <<>>
  /\ availableDates = <<>>
  /\ totalRowsProcessed = 0
  /\ rowsSkippedSalesType = 0
  /\ metrics = <<>>
  /\ error = NoError
  /\ TierIdle
  /\ HelpersIdle

RequiredColumnsFound(idx) ==
  idx.firstSalesmanIndex # -1 /\ idx.itemGroupIndex # -1 /\ idx.firstMobileIndex # -1

\* lines 195-229 when every required column is found
ResolveHeader ==
  /\ pc = "header"
  /\ RequiredColumnsFound(ColumnIndices(headerRow))
  /\ columns' = ColumnIndices(headerRow)
  /\ pc' = "rows"
  /\ UNCHANGED << headerRow, rows, aggregates, totalRowsProcessed, rowsSkippedSalesType,
                  metrics, error, departmentCount, incentiveAmount, helperVars >>

\* lines 195-229 when a required column is missing: the throw at line 224
FailMissingColumns ==
  /\ pc = "header"
  /\ ~RequiredColumnsFound(ColumnIndices(headerRow))
  /\ columns' = ColumnIndices(headerRow)
  /\ error' = MissingColumnsError(headerRow, ColumnIndices(headerRow))
  /\ pc' = "error"
  /\ UNCHANGED << headerRow, rows, aggregates, totalRowsProcessed, rowsSkippedSalesType,
                  metrics, departmentCount, incentiveAmount, helperVars >>

\* one iteration of the row loop on a blank row (lines 250-253)
SkipBlankRow(row) ==
  /\ pc = "rows"
  /\ Len(rows) < MaxRows
  /\ RowFactsTable[columns][row].isBlank
  /\ rows' = Append(rows, row)
  /\ UNCHANGED << pc, headerRow, columns, aggregates, totalRowsProcessed,
                  rowsSkippedSalesType, metrics, error, departmentCount, incentiveAmount, helperVars >>

\* one iteration of the row loop on a row the sales-type filter skips
\* (lines 255-268)
SkipNonSaleRow(row) ==
  /\ pc = "rows"
  /\ Len(rows) < MaxRows
  /\ ~RowFactsTable[columns][row].isBlank
  /\ RowFactsTable[columns][row].isSkippedSalesType
  /\ rows' = Append(rows, row)
  /\ totalRowsProcessed' = totalRowsProcessed + 1
  /\ rowsSkippedSalesType' = rowsSkippedSalesType + 1
  /\ UNCHANGED << pc, headerRow, columns, aggregates, metrics, error, departmentCount,
                  incentiveAmount, helperVars >>

\* one iteration of the row loop on a row that passes the filter (lines 255-373)
ProcessRow(row) ==
  /\ pc = "rows"
  /\ Len(rows) < MaxRows
  /\ \E facts \in {RowFactsTable[columns][row]} :
       /\ ~facts.isBlank
       /\ ~facts.isSkippedSalesType
       /\ salesmanDepartments' = AddSalesmanDepartment(salesmanDepartments, facts)
       /\ customerSalesmen' = AddCustomerSalesman(customerSalesmen, facts)
       /\ customerVisits' = AddCustomerVisit(customerVisits, facts)
       /\ availableDates' = AddAvailableDate(availableDates, facts)
  /\ rows' = Append(rows, row)
  /\ totalRowsProcessed' = totalRowsProcessed + 1
  /\ UNCHANGED << pc, headerRow, columns, rowsSkippedSalesType, metrics, error,
                  departmentCount, incentiveAmount, helperVars >>

\* the test of line 492 without its totalRowsProcessed > 0
NoValidData_emptyOnly(sortedMetrics, total) == Len(sortedMetrics) = 0

\* the test of line 492: no metrics although rows were processed
NoValidData(sortedMetrics, total) == Len(sortedMetrics) = 0 /\ total > 0

\* after the last row (lines 378-508): the metrics are returned, or the Error
\* of line 493 is thrown when there are none although rows were processed
FinishParse ==
  /\ pc = "rows"
  /\ LET sortedMetrics == sortedMetricsOf(customerVisits, customerSalesmen, salesmanDepartments)
     IN  IF NoValidData(sortedMetrics, totalRowsProcessed)
         THEN /\ error' = NoDataError
              /\ pc' = "error"
              /\ UNCHANGED metrics
         ELSE /\ metrics' = sortedMetrics
              /\ pc' = "done"
              /\ UNCHANGED error
  /\ UNCHANGED << headerRow, columns, rows, aggregates, totalRowsProcessed,
                  rowsSkippedSalesType, departmentCount, incentiveAmount, helperVars >>

Next ==
  \/ ResolveHeader
  \/ FailMissingColumns
  \/ \E row \in DataRows : SkipBlankRow(row)
  \/ \E row \in DataRows : SkipNonSaleRow(row)
  \/ \E row \in DataRows : ProcessRow(row)
  \/ FinishParse

Spec == Init /\ [][Next]_vars

(***************************************************************************)
(* calculateIncentiveForDepartments on its own.                            *)
(***************************************************************************)
InitTier ==
  /\ pc = "tier"
  /\ departmentCount \in 0..MaxDepartmentCount
  /\ incentiveAmount = -1
  /\ ParseIdle
  /\ HelpersIdle

CallTier ==
  /\ pc = "tier"
  /\ incentiveAmount = -1
  /\ incentiveAmount' = calculateIncentiveForDepartments(departmentCount)
  /\ UNCHANGED << pc, departmentCount, parseVars, helperVars >>

NextTier == CallTier

SpecTier == InitTier /\ [][NextTier]_vars

(***************************************************************************)
(* The location of the header row (parseWorkbook, lines 151-168).          *)
(***************************************************************************)
InitLocate ==
  /\ pc = "locate"
  /\ CallsIdle
  /\ UploadIdle
  /\ AuthIdle
  /\ DepartmentIdle
  /\ CustomerDataIdle
  /\ SaveIdle
  /\ ComputeIdle
  /\ FilterIdle
  /\ SortIdle
  /\ sheetRows \in UNION {SheetsOfLength(n) : n \in 0..MaxSheetRows}
  /\ headerRowIndex = -2
  /\ ParseIdle
  /\ TierIdle
  /\ DateIdle
  /\ KeyIdle
  /\ FindIdle

LocateHeaderRow ==
  /\ pc = "locate"
  /\ IF Len(sheetRows) = 0
     THEN /\ error' = EmptyWorksheetError
          /\ pc' = "error"
          /\ UNCHANGED << headerRowIndex, headerRow >>
     ELSE /\ headerRowIndex' = headerRowIndexOf(sheetRows)
          /\ IF headerRowIndexOf(sheetRows) = -1
             THEN /\ error' = NoHeaderRowError
                  /\ pc' = "error"
                  /\ UNCHANGED headerRow
             ELSE /\ headerRow' = sheetRows[headerRowIndexOf(sheetRows) + 1]
                  /\ pc' = "located"
                  /\ UNCHANGED error
  /\ UNCHANGED << sheetRows, columns, rows, aggregates, totalRowsProcessed,
                  rowsSkippedSalesType, metrics, tierVars, dateVars, keyVars, findVars,
                  sortVars,
                  filterVars,
                  computeVars,
                  saveVars,
                  customerDataVars,
                  departmentVars,
                  authVars,
                  uploadVars,
                  callVars >>

NextLocate == LocateHeaderRow

SpecLocate == InitLocate /\ [][NextLocate]_vars

(***************************************************************************)
(* breakdown.sort on its own (parseWorkbook, lines 426-437).               *)
(***************************************************************************)
InitSortBreakdown ==
  /\ pc = "sortBreakdown"
  /\ CallsIdle
  /\ UploadIdle
  /\ AuthIdle
  /\ DepartmentIdle
  /\ CustomerDataIdle
  /\ SaveIdle
  /\ ComputeIdle
  /\ FilterIdle
  /\ breakdownToSort \in UNION {BreakdownsOfLength(n) : n \in 0..MaxBreakdown}
  /\ breakdownSorted = <<>>
  /\ metricsToSort = <<>>
  /\ metricsSorted = <<>>
  /\ ParseIdle
  /\ TierIdle
  /\ DateIdle
  /\ KeyIdle
  /\ LocateIdle
  /\ FindIdle

SortBreakdown ==
  /\ pc = "sortBreakdown"
  /\ breakdownSorted' = sortBreakdown(breakdownToSort)
  /\ pc' = "sortedBreakdown"
  /\ UNCHANGED << breakdownToSort, metricsToSort, metricsSorted, parseVars, tierVars, dateVars,
                  keyVars, locateVars, findVars,
                  filterVars,
                  computeVars,
                  saveVars,
                  customerDataVars,
                  departmentVars,
                  authVars,
                  uploadVars,
                  callVars >>

NextSortBreakdown == SortBreakdown

SpecSortBreakdown == InitSortBreakdown /\ [][NextSortBreakdown]_vars

(***************************************************************************)
(* metrics.sort on its own (parseWorkbook, line 458).                      *)
(***************************************************************************)
InitSortMetrics ==
  /\ pc = "sortMetrics"
  /\ CallsIdle
  /\ UploadIdle
  /\ AuthIdle
  /\ DepartmentIdle
  /\ CustomerDataIdle
  /\ SaveIdle
  /\ ComputeIdle
  /\ FilterIdle
  /\ metricsToSort \in UNION {MetricListsOfLength(n) : n \in 0..MaxMetrics}
  /\ metricsSorted = <<>>
  /\ breakdownToSort = <<>>
  /\ breakdownSorted = <<>>
  /\ ParseIdle
  /\ TierIdle
  /\ DateIdle
  /\ KeyIdle
  /\ LocateIdle
  /\ FindIdle

SortMetrics ==
  /\ pc = "sortMetrics"
  /\ metricsSorted' = sortMetrics(metricsToSort)
  /\ pc' = "sortedMetrics"
  /\ UNCHANGED << metricsToSort, breakdownToSort, breakdownSorted, parseVars, tierVars, dateVars,
                  keyVars, locateVars, findVars,
                  filterVars,
                  computeVars,
                  saveVars,
                  customerDataVars,
                  departmentVars,
                  authVars,
                  uploadVars,
                  callVars >>

NextSortMetrics == SortMetrics

SpecSortMetrics == InitSortMetrics /\ [][NextSortMetrics]_vars

(***************************************************************************)
(* filterPredicate of the Dashboard (lines 585-610) on its own.            *)
(***************************************************************************)
\* week starts: within a month, across a year end, across the end of a leap
\* February, in 1900, at the end of year 9999 and in a year below 100
WeekStarts ==
  { <<"2", "0", "2", "3", "-", "0", "3", "-", "1", "5">>,
    <<"2", "0", "2", "3", "-", "1", "2", "-", "2", "8">>,
    <<"2", "0", "2", "4", "-", "0", "2", "-", "2", "4">>,
    <<"1", "9", "0", "0", "-", "0", "2", "-", "2", "5">>,
    <<"9", "9", "9", "9", "-", "1", "2", "-", "2", "8">>,
    <<"0", "0", "2", "0", "-", "0", "3", "-", "1", "5">> }

LastIsoDay == daysFromCivil(9999, 12, 31)

\* the ISO dates parseDateCell can give the entries: the days around the week
\* starts, up to the last day of year 9999
EntryDates ==
  { toIsoDate(day) :
      day \in { d \in { toTimestamp(start) + k : start \in WeekStarts, k \in -1..MaxWeekOffset } :
                  d <= LastIsoDay } }

\* breakdown entries, with an ISO date or without
FilterEntries ==
  { [dateIso |-> iso, dateKey |-> iso, amount |-> 20] : iso \in EntryDates }
  \cup { [dateIso |-> <<>>, dateKey |-> UNKNOWN_DATE_KEY, amount |-> 20] }

\* filterPredicate keeping, in the `all` timeframe, only the entries with an
\* ISO date
filterPredicate_allDated(entry) ==
  IF timeframe = "all" THEN entry.dateIso # <<>>
  ELSE IF timeframe = "day"
  THEN IF selectedDay = <<>> THEN FALSE ELSE entry.dateIso = selectedDay
  ELSE FALSE

\* filterPredicate(entry) under the current timeframe, selectedDay and weekStart
filterPredicate(entry) ==
  IF timeframe = "all" THEN TRUE
  ELSE IF timeframe = "day"
  THEN IF selectedDay = <<>> THEN FALSE ELSE entry.dateIso = selectedDay
  ELSE IF weekStart = <<>> THEN FALSE
  ELSE IF entry.dateIso = <<>> THEN FALSE
  ELSE LET startTs == toTimestamp(weekStart)
       IN  IF startTs = InvalidDate THEN FALSE
           ELSE LET endIso == addDaysToIso(weekStart, 6)
                    endTs == toTimestamp(endIso)
                    entryTs == toTimestamp(entry.dateIso)
                IN  IF entryTs = InvalidDate \/ endTs = InvalidDate THEN FALSE
                    ELSE entryTs >= startTs /\ entryTs <= endTs

InitFilter ==
  /\ pc = "filter"
  /\ CallsIdle
  /\ UploadIdle
  /\ AuthIdle
  /\ DepartmentIdle
  /\ CustomerDataIdle
  /\ SaveIdle
  /\ ComputeIdle
  /\ timeframe \in {"all", "day", "week"}
  /\ selectedDay \in {<<>>, <<"2", "0", "2", "3", "-", "0", "3", "-", "1", "5">>}
  /\ weekStart \in WeekStarts \cup {<<>>}
  /\ breakdownEntry \in FilterEntries
  /\ entryKept = "none"
  /\ ParseIdle
  /\ TierIdle
  /\ DateIdle
  /\ KeyIdle
  /\ LocateIdle
  /\ FindIdle
  /\ SortIdle

CallFilterPredicate ==
  /\ pc = "filter"
  /\ entryKept' = filterPredicate(breakdownEntry)
  /\ pc' = "filtered"
  /\ UNCHANGED << timeframe, selectedDay, weekStart, breakdownEntry, parseVars, tierVars,
                  dateVars, keyVars, locateVars, findVars, sortVars,
                  computeVars,
                  saveVars,
                  customerDataVars,
                  departmentVars,
                  authVars,
                  uploadVars,
                  callVars >>

NextFilter == CallFilterPredicate

SpecFilter == InitFilter /\ [][NextFilter]_vars

\* ---------------------------------------------------------------------------
\* computedMetrics (page.tsx:612-626): the metrics under the selected timeframe
\* ---------------------------------------------------------------------------

MaxBreakdownEntries == 2

t_a_b == <<"a", " ", "b">>
t_a__sp_b == <<"a", " ", " ", "b">>
d_20230315 == <<"2", "0", "2", "3", "-", "0", "3", "-", "1", "5">>
d_20230316 == <<"2", "0", "2", "3", "-", "0", "3", "-", "1", "6">>

\* the entries parseWorkbook can push to a breakdown: the raw customer id of
\* the row that opened the visit, and the visit's date
ComputeEntries ==
  { [customerId |-> id, dateIso |-> iso, dateKey |-> iso, amount |-> 20] :
      id \in {t_c1, t_C1, t_a_b, t_a__sp_b}, iso \in {d_20230315, d_20230316} }
  \cup { [customerId |-> id, dateIso |-> <<>>, dateKey |-> UNKNOWN_DATE_KEY, amount |-> 20] :
           id \in {t_c1, t_C1, t_a_b, t_a__sp_b} }

\* the visit key of an entry (page.tsx:361): breakdowns hold one entry per key
visitKeyOf(entry) == normalizeKey(Str(entry.customerId)) \o <<"_", "_">> \o entry.dateKey

RECURSIVE ComputeBreakdownsOfLength(_)
ComputeBreakdownsOfLength(n) ==
  IF n = 0 THEN {<<>>}
  ELSE UNION { { Append(list, e) :
                   e \in { x \in ComputeEntries :
                             \A i \in DOMAIN list : visitKeyOf(list[i]) # visitKeyOf(x) } } :
               list \in ComputeBreakdownsOfLength(n - 1) }

\* new Set(filteredBreakdown.map((entry) => entry.customerId)).size, page.tsx:616
customersCountOf(filteredBreakdown) ==
  Cardinality({filteredBreakdown[i].customerId : i \in DOMAIN filteredBreakdown})

\* the map callback of page.tsx:613-622
computeMetric(metric) ==
  \* the filtered breakdown is bound once and shared by the three fields
  CHOOSE computed \in
    { [name |-> metric.name,
       breakdown |-> metric.breakdown,
       filteredBreakdown |-> kept,
       filteredTotal |-> sumAmounts(kept),
       customersCount |-> customersCountOf(kept)] :
      kept \in {SelectSeq(metric.breakdown, filterPredicate)} } : TRUE

\* the comparator of page.tsx:624
compareComputed(a, b) ==
  IF b.filteredTotal - a.filteredTotal # 0 THEN b.filteredTotal - a.filteredTotal
  ELSE localeCompare(a.name, b.name)

RECURSIVE insertComputed(_, _)
insertComputed(sorted, x) ==
  IF sorted = <<>> THEN <<x>>
  ELSE IF compareComputed(x, Head(sorted)) < 0 THEN <<x>> \o sorted
  ELSE <<Head(sorted)>> \o insertComputed(Tail(sorted), x)

RECURSIVE sortComputed(_)
sortComputed(list) ==
  IF list = <<>> THEN <<>>
  ELSE insertComputed(sortComputed(SubSeq(list, 1, Len(list) - 1)), list[Len(list)])

computedMetricsOf(raw) == sortComputed([i \in DOMAIN raw |-> computeMetric(raw[i])])

\* the dashboard after a parse: Ann's breakdown, with or without a second
\* salesperson who has one visit, and a timeframe selection
InitCompute ==
  /\ pc = "compute"
  /\ CallsIdle
  /\ UploadIdle
  /\ AuthIdle
  /\ DepartmentIdle
  /\ CustomerDataIdle
  /\ SaveIdle
  /\ \E annBreakdown \in UNION {ComputeBreakdownsOfLength(n) : n \in 0..MaxBreakdownEntries} :
       \E others \in {<<>>,
                      << [name |-> t_Bob,
                          breakdown |-> << [customerId |-> t_c1, dateIso |-> d_20230315,
                                            dateKey |-> d_20230315, amount |-> 20] >>] >>} :
         rawMetrics = << [name |-> t_Ann, breakdown |-> annBreakdown] >> \o others
  /\ computedMetrics = <<>>
  /\ timeframe \in {"all", "day", "week"}
  /\ selectedDay \in {<<>>, d_20230315}
  /\ weekStart \in {<<>>, d_20230315, d_20230316}
  /\ breakdownEntry = NoEntry
  /\ entryKept = "none"
  /\ ParseIdle
  /\ TierIdle
  /\ DateIdle
  /\ KeyIdle
  /\ LocateIdle
  /\ FindIdle
  /\ SortIdle

ComputeMetrics ==
  /\ pc = "compute"
  /\ computedMetrics' = computedMetricsOf(rawMetrics)
  /\ pc' = "computed"
  /\ UNCHANGED << rawMetrics, filterVars, parseVars, tierVars,
                  dateVars, keyVars, locateVars, findVars, sortVars,
                  saveVars,
                  customerDataVars,
                  departmentVars,
                  authVars,
                  uploadVars,
                  callVars >>

NextCompute == ComputeMetrics

SpecCompute == InitCompute /\ [][NextCompute]_vars

\* ---------------------------------------------------------------------------
\* The save route (src/unnamed/part_008, POST): customers, visits and
\* transactions of a parsed workbook are written to storage.  A request runs
\* from one storage call to the next; requests interleave at these calls.
\* ---------------------------------------------------------------------------

MaxInteractions == 2
MaxSaves == 2
MaxClockDays == 1

Requests == {1, 2}

\* the day of the first save
FirstClockDay == daysFromCivil(2023, 3, 20)

\* a null Date column
NullDate == -2000000

\* the interactions the dashboard sends (part_004:297-309): the raw customer
\* id, its normalizeKey, and the ISO date of the row or <<>> for null
Interaction(id, iso, label) ==
  [customerId |-> id, normalizedCustomerId |-> normalizeKey(Str(id)),
   voucherDateIso |-> iso, departmentLabel |-> label]

SaveInteractions ==
  { Interaction(t_c1, d_20230315, t_kurta), Interaction(t_C1, d_20230316, t_sarees),
    Interaction(t_c1, <<>>, t_kurta), Interaction(t_K2, d_20230315, t_kurta) }

RECURSIVE InteractionsOfLength(_)
InteractionsOfLength(n) ==
  IF n = 0 THEN {<<>>}
  ELSE { Append(list, x) : list \in InteractionsOfLength(n - 1), x \in SaveInteractions }

\* the metrics sent with the interactions: one breakdown entry per visit
SaveMetrics ==
  << [breakdown |-> << [customerId |-> t_c1, dateIso |-> d_20230315, amount |-> 20],
                       [customerId |-> t_C1, dateIso |-> d_20230316, amount |-> 40],
                       [customerId |-> t_c1, dateIso |-> <<>>, amount |-> 20] >>],
     [breakdown |-> << [customerId |-> t_K2, dateIso |-> d_20230315, amount |-> 20] >>] >>

\* String.prototype.replace(/\s+/g, '')
removeWhitespace(text) == SelectSeq(text, LAMBDA c : ~IsWhitespace(c))

\* normalizedId of an interaction, part_008:227
normalizedIdOf(interaction) ==
  removeWhitespace(IF interaction.normalizedCustomerId # <<>>
                   THEN interaction.normalizedCustomerId
                   ELSE trim(toLowerCase(interaction.customerId)))

\* prisma.customer.upsert for each unique customer (part_008:180-212): a new
\* customer starts with no visit; an existing one keeps its counters and dates
RECURSIVE upsertCustomers(_, _)
upsertCustomers(table, interactions) ==
  IF interactions = <<>> THEN table
  ELSE upsertCustomers(
         IF normalizedIdOf(Head(interactions)) = <<>>
              \/ MapHas(table, normalizedIdOf(Head(interactions)))
         THEN table
         ELSE MapSet(table, normalizedIdOf(Head(interactions)),
                     [visitCount |-> 0, totalIncentiveAmount |-> 0,
                      firstVisitDate |-> NullDate, lastVisitDate |-> NullDate]),
         Tail(interactions))

\* visitDate of an interaction at the time `now`, part_008:256-258
visitDateOf(interaction, now) ==
  IF interaction.voucherDateIso # <<>> THEN toTimestamp(interaction.voucherDateIso) ELSE now

\* visitKey of an interaction at the time `now`, part_008:262-263
visitKeyAt(interaction, now) ==
  normalizedIdOf(interaction) \o <<"_">>
    \o (IF interaction.voucherDateIso # <<>> THEN interaction.voucherDateIso
        ELSE toIsoDate(visitDateOf(interaction, now)))

\* one more interaction in the visitMap, part_008:271-290
addToVisitMap(visitMap, interaction, visitKey, now) ==
  LET visit == IF MapHas(visitMap, visitKey) THEN MapGet(visitMap, visitKey)
               ELSE [customerId |-> normalizedIdOf(interaction),
                     visitDate |-> visitDateOf(interaction, now),
                     departments |-> <<>>, transactions |-> <<>>]
  IN  MapSet(visitMap, visitKey,
             [visit EXCEPT !.departments =
                             IF interaction.departmentLabel # <<>>
                             THEN SetAdd(@, interaction.departmentLabel) ELSE @,
                           !.transactions = Append(@, interaction)])

\* the grouping loop of part_008:226-291, every customer being in customerMap
RECURSIVE groupVisits(_, _)
groupVisits(interactions, now) ==
  IF interactions = <<>> THEN <<>>
  ELSE IF normalizedIdOf(interactions[Len(interactions)]) = <<>>
  THEN groupVisits(SubSeq(interactions, 1, Len(interactions) - 1), now)
  ELSE addToVisitMap(groupVisits(SubSeq(interactions, 1, Len(interactions) - 1), now),
                     interactions[Len(interactions)],
                     visitKeyAt(interactions[Len(interactions)], now), now)

\* the amount of the first entry of a breakdown for the visit's first
\* transaction, or -1 (part_008:307-315)
amountInBreakdown(breakdown, firstTransaction) ==
  LET hits == {i \in DOMAIN breakdown :
                 /\ breakdown[i].customerId = firstTransaction.customerId
                 /\ breakdown[i].dateIso = firstTransaction.voucherDateIso}
  IN  IF hits = {} THEN -1 ELSE breakdown[CHOOSE i \in hits : \A j \in hits : i <= j].amount

\* incentiveAmount of a visit, part_008:303-317: the inner loop stops at the
\* first matching entry, the outer loop goes on, so the last metric with a
\* matching entry decides
incentiveAmountOf(visitData, metricList) ==
  LET matching == {m \in DOMAIN metricList :
                     amountInBreakdown(metricList[m].breakdown, visitData.transactions[1]) >= 0}
  IN  IF matching = {} THEN 0
      ELSE amountInBreakdown(metricList[CHOOSE m \in matching : \A k \in matching : k <= m].breakdown,
                             visitData.transactions[1])

IdleRequest ==
  [pc |-> "idle", visitMap |-> <<>>, visitIndex |-> 0, existingVisit |-> FALSE,
   incentiveAmount |-> 0, customer |-> <<>>, saves |-> 0]

visitKeyOfRequest(r) == requests[r].visitMap[requests[r].visitIndex][1]
visitDataOfRequest(r) == requests[r].visitMap[requests[r].visitIndex][2]

\* the number of requests sent so far
SavesStarted == requests[1].saves + requests[2].saves

\* the end of one round of the loop over visitMap (part_008:297): the next
\* visit, or the response
nextVisit(request) ==
  IF request.visitIndex < Len(request.visitMap)
  THEN [request EXCEPT !.pc = "findVisit", !.visitIndex = @ + 1]
  ELSE [request EXCEPT !.pc = "done"]

\* the tables are remembered when the first save has finished
RememberFirstSave(request) ==
  afterFirstSave' =
    IF request.pc = "done" /\ afterFirstSave = <<>>
    THEN [customers |-> customers', visits |-> visits', transactions |-> transactions']
    ELSE afterFirstSave

InitSave ==
  /\ pc = "save"
  /\ CallsIdle
  /\ UploadIdle
  /\ AuthIdle
  /\ DepartmentIdle
  /\ CustomerDataIdle
  /\ clock = FirstClockDay
  /\ customers = <<>>
  /\ visits = <<>>
  /\ transactions = <<>>
  /\ \E list \in UNION {InteractionsOfLength(n) : n \in 1..MaxInteractions} :
       workbook = [customerInteractions |-> list, metrics |-> SaveMetrics]
  /\ requests = [r \in Requests |-> IdleRequest]
  /\ afterFirstSave = <<>>
  /\ ParseIdle
  /\ TierIdle
  /\ DateIdle
  /\ KeyIdle
  /\ LocateIdle
  /\ FindIdle
  /\ SortIdle
  /\ FilterIdle
  /\ ComputeIdle

\* the server's clock reaches the next day; the clock is read when a request
\* starts, so its later values are left out
Tick ==
  /\ pc = "save"
  /\ clock < FirstClockDay + MaxClockDays
  /\ SavesStarted < MaxSaves
  /\ clock' = clock + 1
  /\ UNCHANGED << customers, visits, transactions, workbook, requests, afterFirstSave,
                  pc, parseVars, tierVars, dateVars, keyVars, locateVars, findVars,
                  sortVars, filterVars, computeVars,
                  customerDataVars,
                  departmentVars,
                  authVars,
                  uploadVars,
                  callVars >>

\* POST up to the loop over visitMap (part_008:163-294): the customers are
\* upserted and the interactions grouped by visit key
StartSave(r) ==
  /\ pc = "save"
  /\ requests[r].pc \in {"idle", "done"}
  /\ SavesStarted < MaxSaves
  /\ customers' = upsertCustomers(customers, workbook.customerInteractions)
  /\ requests' = [requests EXCEPT ![r] =
                    [IdleRequest EXCEPT !.pc = "findVisit",
                                        !.saves = requests[r].saves + 1,
                                        !.visitMap = groupVisits(workbook.customerInteractions, clock),
                                        !.visitIndex = 1]]
  /\ UNCHANGED << clock, visits, transactions, workbook, afterFirstSave,
                  pc, parseVars, tierVars, dateVars, keyVars, locateVars, findVars,
                  sortVars, filterVars, computeVars,
                  customerDataVars,
                  departmentVars,
                  authVars,
                  uploadVars,
                  callVars >>

\* prisma.customerVisit.findUnique, part_008:303-328
FindVisit(r) ==
  /\ pc = "save"
  /\ requests[r].pc = "findVisit"
  /\ requests' = [requests EXCEPT ![r] =
                    [@ EXCEPT !.existingVisit = MapHas(visits, visitKeyOfRequest(r)),
                              !.incentiveAmount = incentiveAmountOf(visitDataOfRequest(r),
                                                                    workbook.metrics),
                              !.pc = IF MapHas(visits, visitKeyOfRequest(r))
                                     THEN "deleteTransactions" ELSE "createVisit"]]
  /\ UNCHANGED << clock, customers, visits, transactions, workbook, afterFirstSave,
                  pc, parseVars, tierVars, dateVars, keyVars, locateVars, findVars,
                  sortVars, filterVars, computeVars,
                  customerDataVars,
                  departmentVars,
                  authVars,
                  uploadVars,
                  callVars >>

\* prisma.visitTransaction.deleteMany, part_008:333-335
DeleteTransactions(r) ==
  /\ pc = "save"
  /\ requests[r].pc = "deleteTransactions"
  /\ transactions' = MapSet(transactions, visitKeyOfRequest(r), <<>>)
  /\ requests' = [requests EXCEPT ![r].pc = "updateVisit"]
  /\ UNCHANGED << clock, customers, visits, workbook, afterFirstSave,
                  pc, parseVars, tierVars, dateVars, keyVars, locateVars, findVars,
                  sortVars, filterVars, computeVars,
                  customerDataVars,
                  departmentVars,
                  authVars,
                  uploadVars,
                  callVars >>

\* the columns of a visit written by create and update, part_008:340-348, 354-364
visitRowOf(visitData, amount) ==
  [customerId |-> visitData.customerId, visitDate |-> visitData.visitDate,
   departmentsVisited |-> visitData.departments, incentiveAmount |-> amount]

\* prisma.customerVisit.update, part_008:338-349
UpdateVisit(r) ==
  /\ pc = "save"
  /\ requests[r].pc = "updateVisit"
  /\ visits' = MapSet(visits, visitKeyOfRequest(r),
                      visitRowOf(visitDataOfRequest(r), requests[r].incentiveAmount))
  /\ requests' = [requests EXCEPT ![r].pc = "createTransactions"]
  /\ UNCHANGED << clock, customers, transactions, workbook, afterFirstSave,
                  pc, parseVars, tierVars, dateVars, keyVars, locateVars, findVars,
                  sortVars, filterVars, computeVars,
                  customerDataVars,
                  departmentVars,
                  authVars,
                  uploadVars,
                  callVars >>

\* prisma.customerVisit.create, part_008:352-365; visitKey is a unique column
\* (findUnique selects by it), so the create of a key stored meanwhile throws
\* and the catch of part_008:419 goes on with the next visit
CreateVisit(r) ==
  /\ pc = "save"
  /\ requests[r].pc = "createVisit"
  /\ IF MapHas(visits, visitKeyOfRequest(r))
     THEN /\ requests' = [requests EXCEPT ![r] = nextVisit(@)]
          /\ UNCHANGED visits
     ELSE /\ visits' = MapSet(visits, visitKeyOfRequest(r),
                              visitRowOf(visitDataOfRequest(r), requests[r].incentiveAmount))
          /\ requests' = [requests EXCEPT ![r].pc = "createTransactions"]
  /\ UNCHANGED << clock, customers, transactions, workbook >>
  /\ RememberFirstSave(requests'[r])
  /\ UNCHANGED << pc, parseVars, tierVars, dateVars, keyVars, locateVars, findVars,
                  sortVars, filterVars, computeVars,
                  customerDataVars,
                  departmentVars,
                  authVars,
                  uploadVars,
                  callVars >>

\* prisma.visitTransaction.create for each transaction of the visit,
\* part_008:371-391
CreateTransactions(r) ==
  /\ pc = "save"
  /\ requests[r].pc = "createTransactions"
  /\ transactions' =
       MapSet(transactions, visitKeyOfRequest(r),
              (IF MapHas(transactions, visitKeyOfRequest(r))
               THEN MapGet(transactions, visitKeyOfRequest(r)) ELSE <<>>)
                \o visitDataOfRequest(r).transactions)
  /\ requests' = [requests EXCEPT ![r] =
                    IF @.existingVisit THEN nextVisit(@) ELSE [@ EXCEPT !.pc = "findCustomer"]]
  /\ UNCHANGED << clock, customers, visits, workbook >>
  /\ RememberFirstSave(requests'[r])
  /\ UNCHANGED << pc, parseVars, tierVars, dateVars, keyVars, locateVars, findVars,
                  sortVars, filterVars, computeVars,
                  customerDataVars,
                  departmentVars,
                  authVars,
                  uploadVars,
                  callVars >>

\* prisma.customer.findUnique of a new visit's customer, part_008:396-398
FindCustomer(r) ==
  /\ pc = "save"
  /\ requests[r].pc = "findCustomer"
  /\ requests' = [requests EXCEPT ![r] =
                    [@ EXCEPT !.customer = MapGet(customers, visitDataOfRequest(r).customerId),
                              !.pc = "updateCustomer"]]
  /\ UNCHANGED << clock, customers, visits, transactions, workbook, afterFirstSave,
                  pc, parseVars, tierVars, dateVars, keyVars, locateVars, findVars,
                  sortVars, filterVars, computeVars,
                  customerDataVars,
                  departmentVars,
                  authVars,
                  uploadVars,
                  callVars >>

\* the customer row written from the row read before, part_008:401-413: the
\* first visit date is written only when the visit is earlier than the one read
updatedCustomer(stored, read, visitDate, amount) ==
  [visitCount |-> read.visitCount + 1,
   totalIncentiveAmount |-> read.totalIncentiveAmount + amount,
   lastVisitDate |-> visitDate,
   firstVisitDate |-> IF read.firstVisitDate = NullDate \/ visitDate < read.firstVisitDate
                      THEN visitDate ELSE stored.firstVisitDate]

\* prisma.customer.update of a new visit's customer, part_008:405-413
UpdateCustomer(r) ==
  /\ pc = "save"
  /\ requests[r].pc = "updateCustomer"
  /\ customers' = MapSet(customers, visitDataOfRequest(r).customerId,
                         updatedCustomer(MapGet(customers, visitDataOfRequest(r).customerId),
                                         requests[r].customer, visitDataOfRequest(r).visitDate,
                                         requests[r].incentiveAmount))
  /\ requests' = [requests EXCEPT ![r] = nextVisit(@)]
  /\ UNCHANGED << clock, visits, transactions, workbook >>
  /\ RememberFirstSave(requests'[r])
  /\ UNCHANGED << pc, parseVars, tierVars, dateVars, keyVars, locateVars, findVars,
                  sortVars, filterVars, computeVars,
                  customerDataVars,
                  departmentVars,
                  authVars,
                  uploadVars,
                  callVars >>

StepSave(r) ==
  \/ FindVisit(r)
  \/ DeleteTransactions(r)
  \/ UpdateVisit(r)
  \/ CreateVisit(r)
  \/ CreateTransactions(r)
  \/ FindCustomer(r)
  \/ UpdateCustomer(r)

\* the same workbook saved again and again, one request at a time
NextSave ==
  \/ Tick
  \/ StartSave(1)
  \/ StepSave(1)

SpecSave == InitSave /\ [][NextSave]_vars

\* save requests of the same workbook that overlap
NextOverlap ==
  \/ Tick
  \/ \E r \in Requests : StartSave(r) \/ StepSave(r)

SpecOverlap == InitSave /\ [][NextOverlap]_vars

\* ---------------------------------------------------------------------------
\* parseCustomerData (src/lib/departments.ts): the departments each customer
\* visited on each day, the data of the cross-selling pages
\* ---------------------------------------------------------------------------

MaxCustomerRows == 2

t_Replacement == <<"R", "e", "p", "l", "a", "c", "e", "m", "e", "n", "t">>

\* header rows with and without a Sales Type column
CustomerHeaders ==
  { << Str(h_VoucherDate), Str(h_ItemGroupName), Str(h_Mobile1), Str(h_SalesType) >>,
    << Str(h_VoucherDate), Str(h_ItemGroupName), Str(h_Mobile1), Str(h_Remarks) >> }

CustomerRows ==
  { << date, Str(department), Str(customer), Str(salesType) >> :
      date \in {Str(d_20230315), Null},
      department \in {t_kurta, t_Saree, t_toys},
      customer \in {t_c1, t_C1},
      salesType \in {t_Sale, t_Return, t_Replacement} }

RECURSIVE CustomerSheetsOfLength(_)
CustomerSheetsOfLength(n) ==
  IF n = 0 THEN {<<>>}
  ELSE { Append(sheet, row) : sheet \in CustomerSheetsOfLength(n - 1), row \in CustomerRows }

\* the columns parseCustomerData looks for that the model reads (lines
\* 265-270): it looks for no Sales Type column
customerColumnsOf(hdr) ==
  [voucherDateIndex |-> findHeaderIndex(hdr, voucherDateAliases),
   itemGroupIndex |-> findHeaderIndex(hdr, itemGroupAliases),
   firstMobileIndex |-> findHeaderIndex(hdr, mobileAliases)]

\* dateMap.get(dateKey).departments.add(normalizedDept), lines 320-343
addCustomerDepartment(table, customerKey, dateKey, normalizedDept) ==
  LET dateMap == IF MapHas(table, customerKey) THEN MapGet(table, customerKey) ELSE <<>>
      departments == IF MapHas(dateMap, dateKey) THEN MapGet(dateMap, dateKey) ELSE <<>>
  IN  MapSet(table, customerKey, MapSet(dateMap, dateKey, SetAdd(departments, normalizedDept)))

\* one round of the row loop, lines 284-344
customerRowAdded(table, row, idx) ==
  LET dateInfo == IF idx.voucherDateIndex # -1 THEN parseDateCell(CellAt(row, idx.voucherDateIndex))
                  ELSE UnknownDateInfo
      rawCustomerId == stringifyCell(CellAt(row, idx.firstMobileIndex))
      customerKey == normalizeKey(Str(rawCustomerId))
      normalizedDept == normalizeDepartment(stringifyCell(CellAt(row, idx.itemGroupIndex)))
  IN  IF IsBlankRow(row) THEN table
      ELSE IF rawCustomerId = <<>> \/ normalizedDept = <<>>
                \/ normalizedDept \notin Range(MASTER_DEPARTMENTS)
      THEN table
      ELSE IF customerKey = <<>> THEN table
      ELSE addCustomerDepartment(table, customerKey,
                                 IF dateInfo.iso # <<>> THEN dateInfo.iso ELSE dateInfo.key,
                                 normalizedDept)

InitCustomerData ==
  /\ pc = "customerData"
  /\ CallsIdle
  /\ UploadIdle
  /\ AuthIdle
  /\ DepartmentIdle
  /\ customerHeader \in CustomerHeaders
  /\ customerSheet \in UNION {CustomerSheetsOfLength(n) : n \in 0..MaxCustomerRows}
  /\ customerRowIndex = 0
  /\ customerDateDepartments = <<>>
  /\ ParseIdle
  /\ TierIdle
  /\ DateIdle
  /\ KeyIdle
  /\ LocateIdle
  /\ FindIdle
  /\ SortIdle
  /\ FilterIdle
  /\ ComputeIdle
  /\ SaveIdle

ReadCustomerRow ==
  /\ pc = "customerData"
  /\ customerRowIndex < Len(customerSheet)
  /\ customerDateDepartments' =
       customerRowAdded(customerDateDepartments, customerSheet[customerRowIndex + 1],
                        customerColumnsOf(customerHeader))
  /\ customerRowIndex' = customerRowIndex + 1
  /\ UNCHANGED << pc, customerHeader, customerSheet, parseVars, tierVars, dateVars, keyVars,
                  locateVars, findVars, sortVars, filterVars, computeVars, saveVars,
                  departmentVars,
                  authVars,
                  uploadVars,
                  callVars >>

NextCustomerData == ReadCustomerRow

SpecCustomerData == InitCustomerData /\ [][NextCustomerData]_vars

\* ---------------------------------------------------------------------------
\* normalizeDepartment (src/lib/departments.ts:21-67) on raw department names
\* ---------------------------------------------------------------------------

\* raw names made of a master department name in lower case or with a capital
\* first letter, with text before and after it
DepartmentNames ==
  { before \o <<first>> \o Tail(MASTER_DEPARTMENTS[i]) \o after :
      before \in {<<>>, <<" ">>, <<"n", "e", "w", " ">>},
      after \in {<<>>, <<" ">>, <<" ", "w", "e", "a", "r">>, <<" ", "(", "A", ")">>},
      <<i, first>> \in UNION { { <<k, Head(MASTER_DEPARTMENTS[k])>>,
                                 <<k, CHOOSE u \in DOMAIN UpperToLower :
                                        UpperToLower[u] = Head(MASTER_DEPARTMENTS[k])>> } :
                               k \in DOMAIN MASTER_DEPARTMENTS } }

InitDepartment ==
  /\ pc = "normalizeDepartment"
  /\ CallsIdle
  /\ UploadIdle
  /\ AuthIdle
  /\ departmentName \in DepartmentNames
  /\ canonicalDepartment = <<>>
  /\ ParseIdle
  /\ TierIdle
  /\ DateIdle
  /\ KeyIdle
  /\ LocateIdle
  /\ FindIdle
  /\ SortIdle
  /\ FilterIdle
  /\ ComputeIdle
  /\ SaveIdle
  /\ CustomerDataIdle

CallNormalizeDepartment ==
  /\ pc = "normalizeDepartment"
  /\ canonicalDepartment' = normalizeDepartment(departmentName)
  /\ pc' = "normalizedDepartment"
  /\ UNCHANGED << departmentName, parseVars, tierVars, dateVars, keyVars, locateVars, findVars,
                  sortVars, filterVars, computeVars, saveVars, customerDataVars,
                  authVars,
                  uploadVars,
                  callVars >>

NextDepartment == CallNormalizeDepartment

SpecDepartment == InitDepartment /\ [][NextDepartment]_vars

\* ---------------------------------------------------------------------------
\* AuthProvider (src/unnamed/part_012:81-160): the stored session, the route
\* protection effect, login and logout
\* ---------------------------------------------------------------------------

MaxUserActions == 3

UserNames == {"admin", "telecaller"}
Paths == {"/", "/customers", "/login"}

\* the route protection effect, part_012:99-107: the path it pushes, or "none"
protectedRoutePush_loginPageOnly(currentUser, path) ==
  IF currentUser # "null" /\ path = "/login" THEN "/" ELSE "none"

protectedRoutePush(currentUser, path) ==
  IF currentUser = "null" /\ path # "/login" THEN "/login"
  ELSE IF currentUser # "null" /\ path = "/login" THEN "/"
  ELSE "none"

\* a later router.push replaces the one under way
pushOver(current, pushed) == IF pushed = "none" THEN current ELSE pushed

\* the page is opened at some path, with or without a stored session
InitAuth ==
  /\ pc = "unmounted"
  /\ CallsIdle
  /\ UploadIdle
  /\ user = "null"
  /\ pathname \in Paths
  /\ storedUser \in UserNames \cup {"absent", "corrupt"}
  /\ protectPending = FALSE
  /\ pushedPath = "none"
  /\ userActions = 0
  /\ ParseIdle
  /\ TierIdle
  /\ DateIdle
  /\ KeyIdle
  /\ LocateIdle
  /\ FindIdle
  /\ SortIdle
  /\ FilterIdle
  /\ ComputeIdle
  /\ SaveIdle
  /\ CustomerDataIdle
  /\ DepartmentIdle

\* the effects of the first render, part_012:86-107, both run with user = null:
\* the stored session is read (a corrupt one is removed), then the route
\* protection runs; setUser makes the component render again
MountAuthProvider ==
  /\ pc = "unmounted"
  /\ pc' = "mounted"
  /\ user' = IF storedUser \in UserNames THEN storedUser ELSE "null"
  /\ storedUser' = IF storedUser = "corrupt" THEN "absent" ELSE storedUser
  /\ pushedPath' = pushOver(pushedPath, protectedRoutePush("null", pathname))
  /\ protectPending' = (storedUser \in UserNames)
  /\ UNCHANGED << pathname, userActions, parseVars, tierVars, dateVars, keyVars, locateVars,
                  findVars, sortVars, filterVars, computeVars, saveVars, customerDataVars,
                  departmentVars,
                  uploadVars,
                  callVars >>

\* the route protection effect after a render in which user or pathname changed
ProtectRoute ==
  /\ pc = "mounted"
  /\ protectPending
  /\ pushedPath' = pushOver(pushedPath, protectedRoutePush(user, pathname))
  /\ protectPending' = FALSE
  /\ UNCHANGED << pc, user, pathname, storedUser, userActions, parseVars, tierVars, dateVars,
                  keyVars, locateVars, findVars, sortVars, filterVars, computeVars, saveVars,
                  customerDataVars, departmentVars,
                  uploadVars,
                  callVars >>

\* the router finishes the navigation under way: usePathname gives the new path
FinishNavigation ==
  /\ pc = "mounted"
  /\ pushedPath # "none"
  /\ pathname' = pushedPath
  /\ pushedPath' = "none"
  /\ protectPending' = (protectPending \/ pushedPath # pathname)
  /\ UNCHANGED << pc, user, storedUser, userActions, parseVars, tierVars, dateVars,
                  keyVars, locateVars, findVars, sortVars, filterVars, computeVars, saveVars,
                  customerDataVars, departmentVars,
                  uploadVars,
                  callVars >>

\* login with valid credentials on the login page, part_012:109-141; setUser
\* is given a new object, so the component renders again
Login ==
  /\ pc = "mounted"
  /\ pathname = "/login"
  /\ userActions < MaxUserActions
  /\ \E name \in UserNames :
       /\ user' = name
       /\ storedUser' = name
       /\ protectPending' = TRUE
  /\ userActions' = userActions + 1
  /\ UNCHANGED << pc, pathname, pushedPath, parseVars, tierVars, dateVars,
                  keyVars, locateVars, findVars, sortVars, filterVars, computeVars, saveVars,
                  customerDataVars, departmentVars,
                  uploadVars,
                  callVars >>

\* logout, part_012:143-147
Logout ==
  /\ pc = "mounted"
  /\ user # "null"
  /\ userActions < MaxUserActions
  /\ user' = "null"
  /\ storedUser' = "absent"
  /\ pushedPath' = "/login"
  /\ protectPending' = TRUE
  /\ userActions' = userActions + 1
  /\ UNCHANGED << pc, pathname, parseVars, tierVars, dateVars,
                  keyVars, locateVars, findVars, sortVars, filterVars, computeVars, saveVars,
                  customerDataVars, departmentVars,
                  uploadVars,
                  callVars >>

\* a click on a link of the page shown
FollowLink ==
  /\ pc = "mounted"
  /\ userActions < MaxUserActions
  /\ \E path \in Paths \ {pathname} : pushedPath' = path
  /\ userActions' = userActions + 1
  /\ UNCHANGED << pc, user, pathname, storedUser, protectPending, parseVars, tierVars, dateVars,
                  keyVars, locateVars, findVars, sortVars, filterVars, computeVars, saveVars,
                  customerDataVars, departmentVars,
                  uploadVars,
                  callVars >>

NextAuth ==
  \/ MountAuthProvider
  \/ ProtectRoute
  \/ FinishNavigation
  \/ Login
  \/ Logout
  \/ FollowLink

SpecAuth == InitAuth /\ [][NextAuth]_vars

\* React runs a scheduled effect and the router finishes a navigation; the
\* clicks are the user's and may never come
SpecAuthFair ==
  /\ SpecAuth
  /\ WF_vars(MountAuthProvider)
  /\ WF_vars(ProtectRoute)
  /\ WF_vars(FinishNavigation)

\* ---------------------------------------------------------------------------
\* handleUpload (page.tsx:653-696): a call sets isParsing, waits for the
\* file's bytes, parses them and stores the result or the error
\* ---------------------------------------------------------------------------

MaxUploads == 2

\* what file.arrayBuffer() and parseWorkbook make of a file: a result, or an
\* error thrown
Parsed(metricList, dates, subCategories) ==
  [thrown |-> FALSE, message |-> "null", metrics |-> metricList, availableDates |-> dates,
   dateLabels |-> [i \in DOMAIN dates |-> <<dates[i], dates[i]>>],
   uniqueSubCategories |-> subCategories]

Thrown(text) ==
  [thrown |-> TRUE, message |-> text, metrics |-> <<>>, availableDates |-> <<>>,
   dateLabels |-> <<>>, uniqueSubCategories |-> <<>>]

UploadFiles ==
  { Parsed(<< [name |-> t_Ann, breakdown |-> <<>>] >>, << d_20230315 >>, << t_kurta >>),
    Parsed(<< [name |-> t_Bob, breakdown |-> <<>>] >>, << d_20230315, d_20230316 >>,
           << t_sarees, t_toys >>),
    Parsed(<<>>, <<>>, <<>>),
    Thrown("Failed to detect required columns"),
    Thrown("The worksheet is empty.") }

NoDataMessage == "No data found"

\* parsed.availableDates[parsed.availableDates.length - 1] ?? ''
lastDateOf(dates) == IF dates = <<>> THEN <<>> ELSE dates[Len(dates)]

InFlight == {u \in DOMAIN uploads : uploads[u].pc = "reading"}

\* the dashboard before the first upload
InitUpload ==
  /\ pc = "dashboard"
  /\ CallsIdle
  /\ isParsing = FALSE
  /\ uploadError = "null"
  /\ rawMetrics = <<>>
  /\ computedMetrics = <<>>
  /\ shownDates = <<>>
  /\ dateLabels = <<>>
  /\ uniqueSubCategories = <<>>
  /\ uploads = [u \in 1..MaxUploads |-> [pc |-> "idle", file |-> Thrown("null")]]
  /\ FilterIdle
  /\ ParseIdle
  /\ TierIdle
  /\ DateIdle
  /\ KeyIdle
  /\ LocateIdle
  /\ FindIdle
  /\ SortIdle
  /\ SaveIdle
  /\ CustomerDataIdle
  /\ DepartmentIdle
  /\ AuthIdle

\* handleUpload up to the await of file.arrayBuffer(), page.tsx:653-659
StartUpload(u) ==
  /\ pc = "dashboard"
  /\ uploads[u].pc = "idle"
  /\ \A v \in 1..(u - 1) : uploads[v].pc # "idle"
  /\ \E file \in UploadFiles : uploads' = [uploads EXCEPT ![u] = [pc |-> "reading", file |-> file]]
  /\ isParsing' = TRUE
  /\ uploadError' = "null"
  /\ UNCHANGED << pc, rawMetrics, computedMetrics, shownDates, dateLabels, uniqueSubCategories,
                  filterVars, parseVars, tierVars, dateVars, keyVars, locateVars, findVars,
                  sortVars, saveVars, customerDataVars, departmentVars, authVars,
                  callVars >>

\* handleUpload after the await, page.tsx:660-695: the result is stored, or
\* the catch block empties three of the states and sets the error; the
\* finally block clears isParsing
FinishUpload(u) ==
  /\ pc = "dashboard"
  /\ uploads[u].pc = "reading"
  /\ uploads' = [uploads EXCEPT ![u].pc = "done"]
  /\ IF uploads[u].file.thrown
     THEN /\ rawMetrics' = <<>>
          /\ shownDates' = <<>>
          /\ dateLabels' = <<>>
          /\ uploadError' = uploads[u].file.message
          /\ UNCHANGED << uniqueSubCategories, timeframe, selectedDay, weekStart >>
     ELSE /\ uploadError' = IF Len(uploads[u].file.metrics) = 0 THEN NoDataMessage
                            ELSE uploadError
          /\ rawMetrics' = uploads[u].file.metrics
          /\ shownDates' = uploads[u].file.availableDates
          /\ dateLabels' = uploads[u].file.dateLabels
          /\ uniqueSubCategories' = uploads[u].file.uniqueSubCategories
          /\ timeframe' = "all"
          /\ selectedDay' = lastDateOf(uploads[u].file.availableDates)
          /\ weekStart' = lastDateOf(uploads[u].file.availableDates)
  /\ isParsing' = FALSE
  /\ UNCHANGED << pc, computedMetrics, breakdownEntry, entryKept,
                  parseVars, tierVars, dateVars, keyVars, locateVars, findVars,
                  sortVars, saveVars, customerDataVars, departmentVars, authVars,
                  callVars >>

NextUpload == \E u \in 1..MaxUploads : StartUpload(u) \/ FinishUpload(u)

SpecUpload == InitUpload /\ [][NextUpload]_vars

\* ---------------------------------------------------------------------------
\* Calls: POST /api/calls/initiate creates a call, POST /api/calls/webhook
\* stores the status the telephony provider reports
\* ---------------------------------------------------------------------------

MaxCalls == 1
MaxWebhooks == 2

\* statusMap of the webhook, route.ts:38-46: << provider status, CallStatus >>
statusMap ==
  << << <<"i", "n", "i", "t", "i", "a", "t", "e", "d">>, "INITIATED" >>,
     << <<"r", "i", "n", "g", "i", "n", "g">>, "RINGING" >>,
     << <<"a", "n", "s", "w", "e", "r", "e", "d">>, "ANSWERED" >>,
     << <<"c", "o", "m", "p", "l", "e", "t", "e", "d">>, "COMPLETED" >>,
     << <<"f", "a", "i", "l", "e", "d">>, "FAILED" >>,
     << <<"n", "o", "-", "a", "n", "s", "w", "e", "r">>, "NO_ANSWER" >>,
     << <<"b", "u", "s", "y">>, "FAILED" >> >>

\* mappedStatus, route.ts:36-48; status = <<>> stands for a payload without one
mappedStatusOf(status, callStatus) ==
  IF status # <<>> /\ MapHas(statusMap, toLowerCase(status))
  THEN MapGet(statusMap, toLowerCase(status))
  ELSE callStatus

\* the statuses a provider sends: those of the map, in lower case or with a
\* capital first letter, a status the map does not know, and none
ProviderStatuses ==
  { statusMap[i][1] : i \in DOMAIN statusMap }
  \cup { <<"C", "o", "m", "p", "l", "e", "t", "e", "d">>, <<"R", "i", "n", "g", "i", "n", "g">>,
         <<"q", "u", "e", "u", "e", "d">>, <<>> }

IdleWebhook == [pc |-> "idle", providerCallId |-> 0, status |-> <<>>, call |-> 0, callStatus |-> "null"]

InitCalls ==
  /\ pc = "calls"
  /\ calls = <<>>
  /\ webhooks = [w \in 1..MaxWebhooks |-> IdleWebhook]
  /\ ParseIdle
  /\ TierIdle
  /\ DateIdle
  /\ KeyIdle
  /\ LocateIdle
  /\ FindIdle
  /\ SortIdle
  /\ FilterIdle
  /\ ComputeIdle
  /\ SaveIdle
  /\ CustomerDataIdle
  /\ DepartmentIdle
  /\ AuthIdle
  /\ UploadIdle

\* prisma.call.create of initiate/route.ts:99-116
InitiateCall ==
  /\ pc = "calls"
  /\ Len(calls) < MaxCalls
  /\ calls' = Append(calls, [providerCallId |-> 0, status |-> "INITIATED"])
  /\ UNCHANGED << pc, webhooks, parseVars, tierVars, dateVars, keyVars, locateVars, findVars,
                  sortVars, filterVars, computeVars, saveVars, customerDataVars, departmentVars,
                  authVars, uploadVars >>

\* the provider's id of the call is stored, as the block of
\* initiate/route.ts:118-137 lays out for the telephony integration
RegisterProviderCall(c) ==
  /\ pc = "calls"
  /\ calls[c].providerCallId = 0
  /\ calls' = [calls EXCEPT ![c] = [providerCallId |-> c, status |-> "RINGING"]]
  /\ UNCHANGED << pc, webhooks, parseVars, tierVars, dateVars, keyVars, locateVars, findVars,
                  sortVars, filterVars, computeVars, saveVars, customerDataVars, departmentVars,
                  authVars, uploadVars >>

\* the webhook up to prisma.call.findFirst, webhook/route.ts:4-33: without a
\* provider call id, or without a call of that id, the request ends
ReceiveWebhook(w) ==
  /\ pc = "calls"
  /\ webhooks[w].pc = "idle"
  /\ \A v \in 1..(w - 1) : webhooks[v].pc # "idle"
  /\ \E id \in 0..MaxCalls, status \in ProviderStatuses :
       LET found == {c \in DOMAIN calls : id # 0 /\ calls[c].providerCallId = id}
       IN  webhooks' =
             [webhooks EXCEPT ![w] =
                IF found = {}
                THEN [IdleWebhook EXCEPT !.pc = "done", !.providerCallId = id, !.status = status]
                ELSE [pc |-> "update", providerCallId |-> id, status |-> status,
                      call |-> CHOOSE c \in found : \A d \in found : c <= d,
                      callStatus |-> calls[CHOOSE c \in found : \A d \in found : c <= d].status]]
  /\ UNCHANGED << pc, calls, parseVars, tierVars, dateVars, keyVars, locateVars, findVars,
                  sortVars, filterVars, computeVars, saveVars, customerDataVars, departmentVars,
                  authVars, uploadVars >>

\* prisma.call.update, webhook/route.ts:35-62
UpdateCall(w) ==
  /\ pc = "calls"
  /\ webhooks[w].pc = "update"
  /\ calls' = [calls EXCEPT ![webhooks[w].call].status =
                 mappedStatusOf(webhooks[w].status, webhooks[w].callStatus)]
  /\ webhooks' = [webhooks EXCEPT ![w].pc = "done"]
  /\ UNCHANGED << pc, parseVars, tierVars, dateVars, keyVars, locateVars, findVars,
                  sortVars, filterVars, computeVars, saveVars, customerDataVars, departmentVars,
                  authVars, uploadVars >>

NextCalls ==
  \/ InitiateCall
  \/ \E c \in DOMAIN calls : RegisterProviderCall(c)
  \/ \E w \in 1..MaxWebhooks : ReceiveWebhook(w) \/ UpdateCall(w)

SpecCalls == InitCalls /\ [][NextCalls]_vars

(***************************************************************************)
(* findHeaderIndex on its own.                                             *)
(***************************************************************************)
InitFind ==
  /\ pc = "find"
  /\ CallsIdle
  /\ UploadIdle
  /\ AuthIdle
  /\ DepartmentIdle
  /\ CustomerDataIdle
  /\ SaveIdle
  /\ ComputeIdle
  /\ FilterIdle
  /\ SortIdle
  /\ headerRow \in UNION {HeadersOfLength(n) : n \in 0..MaxHeaderCells}
  /\ targets \in {salesmanAliases, accountNameAliases, mobileAliases}
  /\ foundIndex = -2
  /\ columns = NoColumns
  /\ rows = <<>>
  /\ salesmanDepartments = <<>>
  /\ customerVisits = <<>>
  /\ customerSalesmen = <<>>
  /\ availableDates = <<>>
  /\ totalRowsProcessed = 0
  /\ rowsSkippedSalesType = 0
  /\ metrics = <<>>
  /\ error = NoError
  /\ TierIdle
  /\ DateIdle
  /\ KeyIdle
  /\ LocateIdle

CallFindHeaderIndex ==
  /\ pc = "find"
  /\ foundIndex = -2
  /\ foundIndex' = findHeaderIndex(headerRow, targets)
  /\ UNCHANGED << pc, targets, parseVars, tierVars, dateVars, keyVars, locateVars, sortVars,
                  filterVars,
                  computeVars,
                  saveVars,
                  customerDataVars,
                  departmentVars,
                  authVars,
                  uploadVars,
                  callVars >>

NextFind == CallFindHeaderIndex

SpecFind == InitFind /\ [][NextFind]_vars

(***************************************************************************)
(* normalizeKey on its own: called on each of two texts.                   *)
(***************************************************************************)
InitKey ==
  /\ pc = "key"
  /\ CallsIdle
  /\ UploadIdle
  /\ AuthIdle
  /\ DepartmentIdle
  /\ CustomerDataIdle
  /\ SaveIdle
  /\ ComputeIdle
  /\ FilterIdle
  /\ SortIdle
  /\ keyValues \in {<<Str(a), Str(b)>> : a \in KeyTexts, b \in KeyTexts}
  /\ keys = <<>>
  /\ ParseIdle
  /\ TierIdle
  /\ DateIdle
  /\ LocateIdle
  /\ FindIdle

CallNormalizeKey ==
  /\ pc = "key"
  /\ Len(keys) < Len(keyValues)
  /\ keys' = Append(keys, normalizeKey(keyValues[Len(keys) + 1]))
  /\ UNCHANGED << pc, keyValues, parseVars, tierVars, dateVars, locateVars, findVars, sortVars,
                  filterVars,
                  computeVars,
                  saveVars,
                  customerDataVars,
                  departmentVars,
                  authVars,
                  uploadVars,
                  callVars >>

NextKey == CallNormalizeKey

SpecKey == InitKey /\ [][NextKey]_vars

(***************************************************************************)
(* parseDateCell on its own: a few calls, each on any of the date cells.   *)
(***************************************************************************)
InitDate ==
  /\ pc = "date"
  /\ CallsIdle
  /\ UploadIdle
  /\ AuthIdle
  /\ DepartmentIdle
  /\ CustomerDataIdle
  /\ SaveIdle
  /\ ComputeIdle
  /\ FilterIdle
  /\ SortIdle
  /\ ParseIdle
  /\ TierIdle
  /\ DateIdle
  /\ KeyIdle
  /\ LocateIdle
  /\ FindIdle

CallParseDateCell(value) ==
  /\ pc = "date"
  /\ Len(dateCells) < MaxDateCalls
  /\ dateCells' = Append(dateCells, value)
  /\ dateInfos' = Append(dateInfos, parseDateCell(value))
  /\ UNCHANGED << pc, parseVars, tierVars, keyVars, locateVars, findVars, sortVars,
                  filterVars,
                  computeVars,
                  saveVars,
                  customerDataVars,
                  departmentVars,
                  authVars,
                  uploadVars,
                  callVars >>

NextDate == \E value \in DateCells : CallParseDateCell(value)

SpecDate == InitDate /\ [][NextDate]_vars

(***************************************************************************)
(* Properties.                                                             *)
(***************************************************************************)
\* the breakdown entries of the returned metrics, as << metric, position >>
EntryPositions == {<<i, j>> \in (DOMAIN metrics) \X (1..MaxRows) : j \in DOMAIN metrics[i].breakdown}

EntryAt(p) == metrics[p[1]].breakdown[p[2]]

\* the visit an entry belongs to
EntryVisitKey(e) == normalizeKey(Str(e.customerId)) \o <<"_", "_">> \o e.dateKey

EntriesOfVisit(visitKey) == {p \in EntryPositions : EntryVisitKey(EntryAt(p)) = visitKey}

\* the salesmen linked to a visit
SalesmenOfVisit(visitKey) ==
  IF MapHas(customerSalesmen, visitKey) THEN MapGet(customerSalesmen, visitKey) ELSE <<>>

\* the union of the visit's own departments and its salesmen's departments
UnionOfVisit(visitKey) ==
  Range(MapGet(customerVisits, visitKey).departments)
  \cup UNION {Range(SalesmenOfVisit(visitKey)[i][2].departments) :
                i \in DOMAIN SalesmenOfVisit(visitKey)}

TierOfVisit(visitKey) == calculateIncentiveForDepartments(Cardinality(UnionOfVisit(visitKey)))

\* C1: the tier function gives 0 for a count of 0 or 1, 20 for 2, 40 for 3,
\* 60 for 4 and 80 for 5 or more, so counts 0..6 give 0,0,20,40,60,80,80
C1_TierTable ==
  incentiveAmount # -1 =>
    /\ departmentCount <= 6 =>
         incentiveAmount = <<0, 0, 20, 40, 60, 80, 80>>[departmentCount + 1]
    /\ departmentCount >= 5 => incentiveAmount = 80

C1_Witness == departmentCount = 5 /\ incentiveAmount = 80

\* C2: a visit whose tier amount A is nonzero yields exactly one breakdown
\* entry per linked salesman, each of amount A; a visit without salesmen or
\* with A = 0 yields none
C2_OneFullEntryPerSalesman ==
  pc = "done" =>
    \A visitKey \in MapKeys(customerVisits) :
      LET N == Len(SalesmenOfVisit(visitKey))
          A == TierOfVisit(visitKey)
      IN  /\ Cardinality(EntriesOfVisit(visitKey)) = (IF A # 0 THEN N ELSE 0)
          /\ \A p \in EntriesOfVisit(visitKey) : EntryAt(p).amount = A
          /\ \A i \in DOMAIN SalesmenOfVisit(visitKey) :
               A # 0 =>
                 \E p \in EntriesOfVisit(visitKey) :
                   normalizeKey(Str(metrics[p[1]].name)) = SalesmenOfVisit(visitKey)[i][1]

C2_Witness ==
  /\ pc = "done"
  /\ \E visitKey \in MapKeys(customerVisits) :
       /\ Len(SalesmenOfVisit(visitKey)) = 2
       /\ TierOfVisit(visitKey) = 20
       /\ Cardinality(EntriesOfVisit(visitKey)) = 2

\* C3: the visited departments of every breakdown entry, and the count fed to
\* the tier, are the union of the visit's own departments and the departments
\* of every salesman linked to the visit
C3_VisitedIsUnion ==
  pc = "done" =>
    \A p \in EntryPositions :
      LET e == EntryAt(p)
      IN  /\ Range(e.visitedDepartments) = UnionOfVisit(EntryVisitKey(e))
          /\ e.departmentsVisited = Cardinality(UnionOfVisit(EntryVisitKey(e)))
          /\ e.amount = TierOfVisit(EntryVisitKey(e))

C3_Witness ==
  /\ pc = "done"
  /\ \E p \in EntryPositions :
       LET visitKey == EntryVisitKey(EntryAt(p))
           handled == UNION {Range(SalesmenOfVisit(visitKey)[i][2].departments) :
                               i \in DOMAIN SalesmenOfVisit(visitKey)}
       IN  /\ handled # UnionOfVisit(visitKey)
           /\ Cardinality(UnionOfVisit(visitKey)) = 3

\* the row the row loop has just visited
RowRead == Len(rows') = Len(rows) + 1
LastRow == rows'[Len(rows')]

\* the rows that passed the blank-row and sales-type tests
IngestedRows ==
  {i \in DOMAIN rows : ~RowFactsTable[columns][rows[i]].isBlank
                         /\ ~RowFactsTable[columns][rows[i]].isSkippedSalesType}

\* the ingested rows that reach a visit: a customer id and a department label
VisitRows ==
  {i \in IngestedRows : RowFactsTable[columns][rows[i]].customerKey # <<>>
                          /\ RowFactsTable[columns][rows[i]].departmentLabel # <<>>}

\* C4: two rows are aggregated into the same visit exactly when their
\* normalized customer ids are equal and their date keys are equal, so there
\* are as many visits as distinct (customer, date key) pairs
C4_VisitIsCustomerAndDate ==
  /\ \A i, j \in VisitRows :
       (rowVisitKey(rows[i], columns) = rowVisitKey(rows[j], columns))
         <=> (/\ rowCustomerKey(rows[i], columns) = rowCustomerKey(rows[j], columns)
              /\ dateInfoOf(rows[i], columns).key = dateInfoOf(rows[j], columns).key)
  /\ Len(customerVisits) =
       Cardinality({<<rowCustomerKey(rows[i], columns), dateInfoOf(rows[i], columns).key>> :
                      i \in VisitRows})

\* the claim's reading of a non-sale row: a sales-type column exists, the
\* cell has text, and the text is not "sale" or "sales" in any letter case
ClaimNonSale(row) ==
  /\ columns.salesTypeIndex # -1
  /\ stringifyCell(CellAt(row, columns.salesTypeIndex)) # <<>>
  /\ toLowerCase(stringifyCell(CellAt(row, columns.salesTypeIndex)))
       \notin {<<"s", "a", "l", "e">>, <<"s", "a", "l", "e", "s">>}

MatchesCatalog(name) ==
  LET n == trim(toLowerCase(name))
  IN  \/ n \in Range(MASTER_DEPARTMENTS)
      \/ \E i \in DOMAIN variations : variations[i][1] = n
      \/ \E i \in DOMAIN MASTER_DEPARTMENTS :
           includes(n, MASTER_DEPARTMENTS[i]) \/ includes(MASTER_DEPARTMENTS[i], n)

\* C6: a row whose non-empty item group matches no master department adds no
\* department to any visit or salesman
C6_UnmatchedDepartmentDropped ==
  [][(/\ RowRead
      /\ rawItemGroupOf(LastRow, columns) # <<>>
      /\ ~MatchesCatalog(rawItemGroupOf(LastRow, columns)))
       => UNCHANGED << salesmanDepartments, customerVisits, customerSalesmen >>]_vars

\* the canonical departments billed on the rows of a visit
CanonicalDepartmentsOfVisit(visitKey) ==
  {normalizeDepartment(rawItemGroupOf(rows[i], columns)) :
     i \in {r \in VisitRows : rowVisitKey(rows[r], columns) = visitKey}}

\* C7: the tier of a visit counts each canonical department once, whatever
\* the counters it was billed from
C7_TierCountsCanonicalDepartments ==
  pc = "done" =>
    \A p \in EntryPositions :
      /\ EntryAt(p).departmentsVisited =
           Cardinality(CanonicalDepartmentsOfVisit(EntryVisitKey(EntryAt(p))))
      /\ EntryAt(p).amount =
           calculateIncentiveForDepartments(
             Cardinality(CanonicalDepartmentsOfVisit(EntryVisitKey(EntryAt(p)))))

\* C8: a row with a blank item group adds no department to any visit or
\* salesman, with or without a counter
C8_BlankDepartmentAddsNothing ==
  [][(RowRead /\ rawItemGroupOf(LastRow, columns) = <<>>)
       => UNCHANGED << salesmanDepartments, customerVisits, customerSalesmen >>]_vars

\* the salesman has a breakdown entry: a visit with a nonzero tier links him
HasBreakdownEntry(salesmanKey) ==
  \E visitKey \in MapKeys(customerVisits) :
    TierOfVisit(visitKey) # 0 /\ MapHas(SalesmenOfVisit(visitKey), salesmanKey)

MetricsOfSalesman(salesmanKey) ==
  {m \in DOMAIN metrics : normalizeKey(Str(metrics[m].name)) = salesmanKey}

\* C9: every salesman named on an ingested row is in the returned metrics
\* exactly once, and with totalIncentive 0 and an empty breakdown when no
\* breakdown entry is his; the parse does not fail for lack of data
C9_ZeroIncentiveSalesmanListed ==
  pc \in {"done", "error"} =>
    \A i \in IngestedRows :
      LET salesmanKey == RowFactsTable[columns][rows[i]].salesmanKey
      IN  salesmanKey # <<>> =>
            /\ pc = "done"
            /\ Cardinality(MetricsOfSalesman(salesmanKey)) = 1
            /\ ~HasBreakdownEntry(salesmanKey) =>
                 \A m \in MetricsOfSalesman(salesmanKey) :
                   metrics[m].totalIncentive = 0 /\ metrics[m].breakdown = <<>>

C9_Witness ==
  /\ pc = "done"
  /\ Len(metrics) = 2
  /\ metrics[1].totalIncentive = 20
  /\ metrics[2].totalIncentive = 0
  /\ metrics[2].breakdown = <<>>
  /\ \E i \in IngestedRows : ~MatchesCatalog(rawItemGroupOf(rows[i], columns))

\* the header has no cell whose lower-cased label contains one of the aliases
ColumnMissing(aliases) ==
  \A i \in DOMAIN headerRow :
    \A a \in DOMAIN aliases :
      ~includes(toLowerCase(trim(stringifyCell(headerRow[i]))), aliases[a])

ExpectedMissing ==
  (IF ColumnMissing(salesmanAliases) THEN <<s_SalesmanName>> ELSE <<>>)
  \o (IF ColumnMissing(itemGroupAliases) THEN <<s_ItemGroupName>> ELSE <<>>)
  \o (IF ColumnMissing(mobileAliases) THEN <<s_Mobile1>> ELSE <<>>)

ExpectedFound ==
  SelectSeq([i \in DOMAIN headerRow |-> trim(stringifyCell(headerRow[i]))],
            LAMBDA label : label # <<>>)

\* C10: when the salesman, item group or customer column cannot be resolved,
\* the parse fails at the header, before any data row is processed, and the
\* error names exactly the missing fields and lists the non-empty header
\* labels; otherwise the parse goes on to the rows
C10_MissingColumnsError ==
  [][pc = "header" =>
       IF ExpectedMissing # <<>>
       THEN /\ pc' = "error"
            /\ error'.kind = "MissingColumns"
            /\ error'.missing = join(ExpectedMissing, <<",", " ">>)
            /\ error'.found = join(ExpectedFound, <<",", " ">>)
            /\ rows' = <<>>
            /\ totalRowsProcessed' = 0
            /\ salesmanDepartments' = <<>> /\ customerVisits' = <<>> /\ customerSalesmen' = <<>>
       ELSE pc' = "rows" /\ error' = NoError]_vars

C10_Witness ==
  /\ pc = "error"
  /\ headerRow[2] = Null
  /\ error.missing = s_SalesmanName \o <<",", " ">> \o s_Mobile1
  /\ error.found # <<>>

\* the parse has read its rows and ended, by returning or by the no-data error
ParseEnded == pc \in {"done", "error"} /\ error.kind # "MissingColumns"

\* some row read was not blank
SomeRowRead == \E i \in DOMAIN rows : ~IsBlankRow(rows[i])

\* C11 as claimed: when a data row was read and no breakdown entry results,
\* the parse fails with the no-data error instead of returning metrics
C11_NoBreakdownIsNoData ==
  (ParseEnded /\ SomeRowRead /\ \A visitKey \in MapKeys(customerVisits) :
                                  TierOfVisit(visitKey) = 0 \/ SalesmenOfVisit(visitKey) = <<>>)
    => (pc = "error" /\ error.kind = "NoData")

\* the rows that give their salesman a department: they pass the sales-type
\* filter and carry a salesman name and a department label
SalesmanRows ==
  {i \in IngestedRows : RowFactsTable[columns][rows[i]].salesmanKey # <<>>
                          /\ RowFactsTable[columns][rows[i]].departmentLabel # <<>>}

\* C11 amended: the parse fails with the no-data error exactly when a
\* non-blank data row was read and no row that passes the sales-type filter
\* names a salesman with a department label, so that no salesman at all would
\* be listed; otherwise it returns metrics, also when no breakdown entry results
C11_NoSalesmanIsNoData ==
  ParseEnded =>
    /\ (pc = "error" /\ error.kind = "NoData") <=> (SomeRowRead /\ SalesmanRows = {})
    /\ pc = "done" => (metrics = <<>> <=> SalesmanRows = {})

C11_Witness ==
  /\ pc = "error" /\ error.kind = "NoData"
  /\ totalRowsProcessed = 2
  /\ rowsSkippedSalesType = 1
  /\ Len(customerVisits) = 1

\* C12 as claimed: no call of parseDateCell throws; every cell value yields a
\* DateInfo, and a blank cell yields the unknown-date key
C12_ParseDateCellNeverThrows ==
  \A i \in DOMAIN dateInfos :
    /\ dateInfos[i] # RangeErrorThrown
    /\ dateCells[i] \in {Null, Str(<<>>)} => dateInfos[i].key = UNKNOWN_DATE_KEY

\* the calendar days a cell stands for
DaysOfCell(value) == {c \in CalendarDays : value \in CellsOfDay(c)}

RECURSIVE Words(_)
Words(text) ==
  LET t == trimStart(text)
      ends == {n \in 1..Len(t) : IsWhitespace(t[n])}
      n == IF ends = {} THEN Len(t) + 1 ELSE CHOOSE e \in ends : \A f \in ends : e <= f
  IN  IF t = <<>> THEN <<>>
      ELSE <<SubSeq(t, 1, n - 1)>> \o Words(SubSeq(t, n, Len(t)))

\* a text with letter case and the kind of its quotes set aside
FoldCaseAndQuotes(text) ==
  [i \in DOMAIN text |->
     IF text[i] \in {"lsquo", "rsquo"} THEN "'"
     ELSE IF text[i] \in DOMAIN UpperToLower THEN UpperToLower[text[i]] ELSE text[i]]

\* two texts differ at most in letter case, in whitespace around, in the
\* length of their whitespace runs and in curly against straight quotes
SameUpToCaseSpacingQuotes(a, b) == Words(FoldCaseAndQuotes(a)) = Words(FoldCaseAndQuotes(b))

NonBlankSheetRows == {i \in DOMAIN sheetRows : ~IsBlankRow(sheetRows[i])}

\* C15 as claimed: the header row is row 4 when row 4 is not blank; when row 4
\* is blank, it is the first row that holds a non-empty cell
C15_HeaderRowLocation ==
  (pc = "located" /\ Len(sheetRows) >= 4) =>
    IF ~IsBlankRow(sheetRows[4])
    THEN headerRow = sheetRows[4]
    ELSE NonBlankSheetRows # {} =>
           \E i \in NonBlankSheetRows :
             /\ \A j \in NonBlankSheetRows : i <= j
             /\ headerRow = sheetRows[i] /\ headerRowIndex = i - 1

\* the label of a header cell as the claim reads it: trimmed and lower-cased
LabelOf(cell) == toLowerCase(trim(stringifyCell(cell)))

\* the first of the columns in a set, 0-based, or -1 for the empty set
FirstColumn(matching) ==
  IF matching = {} THEN -1 ELSE (CHOOSE i \in matching : \A j \in matching : i <= j) - 1

\* the columns whose label equals an alias, contains one or is contained in one
ColumnsMatchingEitherWay ==
  {i \in DOMAIN headerRow :
     /\ LabelOf(headerRow[i]) # <<>>
     /\ \E a \in DOMAIN targets :
          \/ LabelOf(headerRow[i]) = targets[a]
          \/ includes(LabelOf(headerRow[i]), targets[a])
          \/ includes(targets[a], LabelOf(headerRow[i]))}

\* C16 as claimed: the field resolves to the first column from the left whose
\* label equals an alias, contains an alias or is contained in an alias
C16_MatchEitherDirection ==
  (pc = "find" /\ foundIndex # -2) => foundIndex = FirstColumn(ColumnsMatchingEitherWay)

\* the columns whose label equals an alias or contains one
ColumnsContainingAlias ==
  {i \in DOMAIN headerRow :
     /\ LabelOf(headerRow[i]) # <<>>
     /\ \E a \in DOMAIN targets :
          \/ LabelOf(headerRow[i]) = targets[a]
          \/ includes(LabelOf(headerRow[i]), targets[a])}

\* C16 amended: the field resolves to the first column from the left whose
\* label equals an alias or contains an alias; a label that is only contained
\* in an alias does not match
C16_MatchHeaderContainsAlias ==
  (pc = "find" /\ foundIndex # -2) => foundIndex = FirstColumn(ColumnsContainingAlias)

C16_Witness ==
  /\ pc = "find"
  /\ targets = salesmanAliases
  /\ headerRow = << Str(<<"S", "a", "l", "e", "s", "m", "a", "n">>), Str(<<" ", "S", "A", "L", "E", "S", " ", "P", "E", "R", "S", "O", "N", " ", "I", "D", " ">>), Str(h_SalesmanName) >>
  /\ foundIndex = 1

\* the rows of a visit, and the first of them that carries an account name
RowsOfVisit(visitKey) ==
  {i \in VisitRows : RowFactsTable[columns][rows[i]].visitKey = visitKey}

NamedRowsOfVisit(visitKey) ==
  {i \in RowsOfVisit(visitKey) : RowFactsTable[columns][rows[i]].rawAccountName # <<>>}

\* C17: the customer name of a visit is the first non-empty account name
\* among the rows of the visit, in row order, also when the first row of the
\* visit has none; it is null only when no row of the visit has one
C17_FirstNonEmptyAccountName ==
  \A v \in DOMAIN customerVisits :
    LET visitKey == customerVisits[v][1]
        named == NamedRowsOfVisit(visitKey)
    IN  IF named = {} THEN customerVisits[v][2].customerName = <<>>
        ELSE \E i \in named :
               /\ \A j \in named : i <= j
               /\ customerVisits[v][2].customerName
                    = RowFactsTable[columns][rows[i]].rawAccountName

\* the day number an ISO date text names
DayOfIso(iso) ==
  daysFromCivil(digitsToNat(SubSeq(iso, 1, 4)), digitsToNat(SubSeq(iso, 6, 7)),
                digitsToNat(SubSeq(iso, 9, 10)))

\* the number of entries of a list equal to a given entry
CountOf(list, e) == Cardinality({i \in DOMAIN list : list[i] = e})

\* C18: a sorted breakdown holds the entries of the breakdown, the dated ones
\* by date descending, and entries of the same date by amount descending
C18_BreakdownOrder ==
  pc = "sortedBreakdown" =>
    /\ Len(breakdownSorted) = Len(breakdownToSort)
    /\ \A e \in SortEntries : CountOf(breakdownSorted, e) = CountOf(breakdownToSort, e)
    /\ \A i, j \in DOMAIN breakdownSorted :
         (i < j) =>
           LET a == breakdownSorted[i]
               b == breakdownSorted[j]
           IN  /\ (a.dateIso # <<>> /\ b.dateIso # <<>>)
                    => DayOfIso(a.dateIso) >= DayOfIso(b.dateIso)
               /\ (a.dateIso = b.dateIso) => a.amount >= b.amount

C18_Witness ==
  /\ pc = "sortedBreakdown"
  /\ Len(breakdownSorted) = 3
  /\ breakdownSorted # breakdownToSort
  /\ breakdownSorted[1].dateIso = breakdownSorted[2].dateIso
  /\ breakdownSorted[1].dateIso # <<>>
  /\ breakdownSorted[1].amount = 80 /\ breakdownSorted[2].amount = 20
  /\ breakdownSorted[3].dateIso = <<"2", "0", "2", "2", "-", "1", "2", "-", "3", "1">>
  /\ breakdownToSort[1].dateIso = <<"2", "0", "2", "2", "-", "1", "2", "-", "3", "1">>

\* the letters in dictionary order
Alphabet ==
  << "a", "b", "c", "d", "e", "f", "g", "h", "i", "j", "k", "l", "m",
     "n", "o", "p", "q", "r", "s", "t", "u", "v", "w", "x", "y", "z" >>

LetterRank(c) == CHOOSE i \in DOMAIN Alphabet : Alphabet[i] = c

\* a name comes strictly before another one in dictionary order, the letter
\* case ignored
RECURSIVE NameBefore(_, _)
NameBefore(a, b) ==
  IF b = <<>> THEN FALSE
  ELSE IF a = <<>> THEN TRUE
  ELSE LET ca == LetterRank(toLowerCase(<<Head(a)>>)[1])
           cb == LetterRank(toLowerCase(<<Head(b)>>)[1])
       IN  IF ca # cb THEN ca < cb ELSE NameBefore(Tail(a), Tail(b))

\* C19: the sorted metrics hold the metrics as pushed, by totalIncentive
\* descending, and those of equal totals by name ascending, the letter case
\* ignored
C19_MetricsOrder ==
  pc = "sortedMetrics" =>
    /\ Len(metricsSorted) = Len(metricsToSort)
    /\ {metricsSorted[i] : i \in DOMAIN metricsSorted}
         = {metricsToSort[i] : i \in DOMAIN metricsToSort}
    /\ \A i, j \in DOMAIN metricsSorted :
         (i < j) =>
           /\ metricsSorted[i].totalIncentive >= metricsSorted[j].totalIncentive
           /\ (metricsSorted[i].totalIncentive = metricsSorted[j].totalIncentive)
                => NameBefore(metricsSorted[i].name, metricsSorted[j].name)

C19_Witness ==
  /\ pc = "sortedMetrics"
  /\ Len(metricsToSort) = 3
  /\ metricsToSort[1].name = <<"C", "y">> /\ metricsToSort[1].totalIncentive = 0
  /\ metricsToSort[2].name = <<"b", "o", "b">> /\ metricsToSort[2].totalIncentive = 0
  /\ metricsToSort[3].name = t_Ann /\ metricsToSort[3].totalIncentive = 20
  /\ metricsSorted[1].name = t_Ann
  /\ metricsSorted[2].name = <<"b", "o", "b">>
  /\ metricsSorted[3].name = <<"C", "y">>

\* C20: in week mode with a week start S, an entry with an ISO date is kept
\* exactly when its day is one of the seven days S .. S+6
C20_WeekWindow ==
  (/\ pc = "filtered"
   /\ timeframe = "week"
   /\ weekStart # <<>>
   /\ breakdownEntry.dateIso # <<>>)
    => (entryKept = (/\ DayOfIso(weekStart) <= DayOfIso(breakdownEntry.dateIso)
                     /\ DayOfIso(breakdownEntry.dateIso) <= DayOfIso(weekStart) + 6))

\* C21: an entry without an ISO date is kept in the `all` timeframe and dropped
\* in the `day` and `week` timeframes, whatever day or week start is selected
C21_UndatedEntryOnlyInAll ==
  (pc = "filtered" /\ breakdownEntry.dateIso = <<>>) => (entryKept = (timeframe = "all"))

C21_Witness ==
  /\ pc = "filtered"
  /\ breakdownEntry.dateIso = <<>>
  /\ timeframe = "week"
  /\ weekStart # <<>>
  /\ entryKept = FALSE

\* C22: for every salesperson and timeframe selection, customersCount is the
\* number of distinct customers in the filtered breakdown, two identifiers equal
\* under normalizeKey being one customer
C22_CustomersCountDistinctCustomers ==
  pc = "computed" =>
    \A i \in DOMAIN computedMetrics :
      computedMetrics[i].customersCount
        = Cardinality({ normalizeKey(Str(computedMetrics[i].filteredBreakdown[k].customerId)) :
                          k \in DOMAIN computedMetrics[i].filteredBreakdown })

CustomerRowsNaming(customerKey, dateKey, department) ==
  { i \in 1..customerRowIndex :
      /\ normalizeKey(customerSheet[i][3]) = customerKey
      /\ parseDateCell(customerSheet[i][1]).key = dateKey
      /\ normalizeDepartment(stringifyCell(customerSheet[i][2])) = department }

\* C24: a department is among a customer's visited departments of a day only
\* if it is a master department and, when the sheet has a Sales Type column,
\* some row naming it has the Sales Type "Sale"
C24_OnlySaleRowsTracked ==
  \A c \in DOMAIN customerDateDepartments :
    \A d \in DOMAIN customerDateDepartments[c][2] :
      \A k \in DOMAIN customerDateDepartments[c][2][d][2] :
        /\ customerDateDepartments[c][2][d][2][k] \in Range(MASTER_DEPARTMENTS)
        /\ customerHeader[4] = Str(h_SalesType) =>
             \E i \in CustomerRowsNaming(customerDateDepartments[c][1],
                                         customerDateDepartments[c][2][d][1],
                                         customerDateDepartments[c][2][d][2][k]) :
               isSale(stringifyCell(customerSheet[i][4]))

\* the master departments whose name the raw name contains
MastersContained(name) ==
  {m \in Range(MASTER_DEPARTMENTS) : includes(toLowerCase(name), m)}

\* C26: a raw name that contains a master department name canonicalizes to a
\* master department it contains, and a name containing "women's ethnic"
\* canonicalizes to "women's ethnic"
C26_ContainedMasterIsCanonical ==
  (pc = "normalizedDepartment" /\ MastersContained(departmentName) # {}) =>
    /\ canonicalDepartment \in MastersContained(departmentName)
    /\ MASTER_DEPARTMENTS[6] \in MastersContained(departmentName)
         => canonicalDepartment = MASTER_DEPARTMENTS[6]

\* no user is logged in: the user state is null and, before the stored
\* session is read, no valid session is stored
NoUserLoggedIn == user = "null" /\ (pc = "unmounted" => storedUser \notin UserNames)

\* C25: whenever no user is logged in and the path is not /login, the
\* application gets to /login
C25_RedirectToLogin ==
  (pc \in {"unmounted", "mounted"} /\ NoUserLoggedIn /\ pathname # "/login")
    ~> (pathname = "/login")

\* after a logout on another page, the login page is shown
C25_Witness ==
  /\ pc = "mounted"
  /\ user = "null" /\ storedUser = "absent"
  /\ pathname = "/login"
  /\ pushedPath = "none"
  /\ userActions = 2

\* C27: while an upload is in flight isParsing is true
C27_ParsingWhileInFlight ==
  (uploads # <<>> /\ InFlight # {}) => isParsing

\* C28: after an upload whose parse throws, rawMetrics, availableDates,
\* dateLabels and uniqueSubCategories are empty and the error is set
C28_FailedUploadClearsResults ==
  [][\A u \in DOMAIN uploads :
       (/\ uploads[u].pc = "reading"
        /\ uploads'[u].pc = "done"
        /\ uploads[u].file.thrown)
         => /\ rawMetrics' = <<>>
            /\ shownDates' = <<>>
            /\ dateLabels' = <<>>
            /\ uniqueSubCategories' = <<>>
            /\ uploadError' # "null"]_vars

====
